---- MODULE Spec2Model ----
(***************************************************************************)
(* A model of the langgraphgo execution engine (graph/graph.go) and of its *)
(* resilience wrappers (graph/retry.go): RetryNode, CircuitBreaker and     *)
(* RateLimiter.                                                            *)
(*                                                                         *)
(* Four specifications share the module's variables:                       *)
(*   SpecGraph  MessageGraph construction, Compile and Runnable.Invoke     *)
(*   SpecCB     CircuitBreaker.Execute, calls made one at a time           *)
(*   SpecRetry  RetryNode.Execute                                          *)
(*   SpecRL     RateLimiter.Execute, calls made one at a time              *)
(* Each leaves the other components' variables unchanged.                  *)
(*                                                                         *)
(* Three more specifications model graph/listeners.go, the streaming       *)
(* executor and the checkpoint listener over a linear ListenableRunnable:  *)
(*   SpecListen  ListenableNode.Execute and its observers                  *)
(*   SpecStream  StreamingRunnable.Stream and ExecuteWithCallback          *)
(*   SpecCkpt    CheckpointableRunnable.Invoke with a memory store         *)
(*                                                                         *)
(* Further specifications:                                                 *)
(*   SpecCkptFail    SpecCkpt over a store whose Save may fail             *)
(*   FairSpecCancel  Stream over nodes that wait for cancellation          *)
(*   SpecConc        Runnable.Invoke called from several goroutines        *)
(*   SpecRace        RateLimiter and CircuitBreaker called concurrently    *)
(*   SpecTimeout     TimeoutNode.Execute                                   *)
(*   SpecTracer      the Tracer API (graph/tracing.go)                     *)
(*   SpecTraced      TracedRunnable.Invoke                                 *)
(*   SpecStore       MemoryCheckpointStore called directly                 *)
(*   SpecParallel    ParallelNode.Execute (graph/parallel.go)              *)
(*   SpecEngines     ListenableRunnable.Invoke and TracedRunnable.Invoke   *)
(*   SpecOverlap     Stream and checkpointing Invoke calls overlapping     *)
(*   SpecSpans       Invoke with a tracer: TracedRunnable, or SetTracer    *)
(***************************************************************************)
EXTENDS Integers, Sequences, FiniteSets, TLC

\* ------------------------------------------------------------------------
\* Bounds of the model
\* ------------------------------------------------------------------------

\* State values passed between nodes are <<0>> .. <<MaxState>>.
MaxState == 2

\* Most static edges a graph definition of the model holds.
MaxEdges == 2

\* The clock runs from 0 to MaxClock.
MaxClock == 4

\* CircuitBreakerConfig: FailureThreshold, SuccessThreshold and
\* HalfOpenMaxCalls range over 1..MaxThreshold, Timeout over 1..MaxTimeout.
MaxThreshold == 2

MaxTimeout == 2

\* Most calls of CircuitBreaker.Execute in one behaviour.
MaxCBCalls == 6

\* RetryConfig: MaxAttempts ranges over 0..MaxAttempts, InitialDelay and
\* MaxDelay over 0..MaxDelayUnits (a RetryConfig literal that leaves MaxDelay
\* out has MaxDelay = 0).
MaxAttempts == 3

MaxDelayUnits == 2

\* RateLimiter: maxCalls ranges over 0..MaxRate, window over 1..MaxWindow.
MaxRate == 2

MaxWindow == 2

\* Most calls of RateLimiter.Execute in one behaviour.
MaxRLCalls == 4

\* A listenable graph is a chain of 1..MaxChain nodes ending at END.
MaxChain == 2

\* Observers a caller registers on the nodes: ids 1..MaxListeners.
MaxListeners == 2

\* StreamConfig.BufferSize ranges over 0..MaxBuffer.
MaxBuffer == 4

\* Goroutines calling one compiled graph at once: 1..MaxCallers.
MaxCallers == 2

\* Hooks registered on a Tracer: 0..MaxHooks.
MaxHooks == 2

\* Most calls a caller makes on a Tracer in one behaviour.
MaxTracerCalls == 3

\* Checkpoint ids a caller of the store uses: 1..MaxCheckpoints.
MaxCheckpoints == 3

\* Execution ids a caller of the store uses: 0..MaxExecs - 1.
MaxExecs == 2

\* Sub-functions of a ParallelNode: 0..MaxParallel.
MaxParallel == 2

\* ------------------------------------------------------------------------
\* graph.go: values
\* ------------------------------------------------------------------------

\* const END = "END"
END == "END"

\* Names a caller registers nodes under. END itself can be registered: AddNode
\* takes any string.
NodeNames == {"A", "B", END}

\* Names the caller's static edges start from.
EdgeSources == {"A", "B"}

\* Names the caller registers conditional edges for.
CondSources == {"A"}

\* The nil interface value. A non-nil state is a one-element tuple <<n>>.
Nil == <<>>

States == {<<n>> : n \in 0..MaxState}

\* The initial states a caller passes to Invoke.
InitialStates == {<<0>>, <<1>>}

\* error values: nil, or what fmt.Errorf builds (kind: which format string,
\* node: the %s operand, cause: the %w operand).
NoErr == [kind |-> "nil", node |-> "", cause |-> ""]

MkErr(k, n, c) == [kind |-> k, node |-> n, cause |-> c]

\* Node functions the caller supplies.
\*   inc   returns the successor state (wrapping at MaxState) and no error
\*   fail  returns its input state together with an error
NodeKinds == {"inc", "fail"}

\* The calls of AddNode a caller makes: END is registered with "inc" only.
NodeMenu == {<<n, k>> \in NodeNames \X NodeKinds : n # END \/ k = "inc"}

NodeFunction(kind, s) ==
    IF kind = "inc"
    THEN [state |-> <<(s[1] + 1) % (MaxState + 1)>>, err |-> "nil"]
    ELSE [state |-> s, err |-> "boom"]

\* Conditional-edge functions the caller supplies.
\*   const  always returns `to` (which may be the empty string)
\*   until  returns END once the state has reached MaxState, `to` before
CondFns ==
    {[kind |-> "const", to |-> t] : t \in {"", END, "A", "B"}}
        \cup {[kind |-> "until", to |-> "A"]}

CondFunction(fn, s) ==
    IF fn.kind = "const" THEN fn.to
    ELSE IF s[1] >= MaxState THEN END ELSE fn.to

VARIABLES
    nodes,              \* MessageGraph.nodes: name -> node function
    edges,              \* MessageGraph.edges: sequence of [from, to]
    conditionalEdges,   \* MessageGraph.conditionalEdges: name -> function
    entryPoint,         \* MessageGraph.entryPoint ("" when not set)
    compiled,           \* "no", "ok" (a Runnable exists) or "EntryPointNotSet"
    pc,                 \* Invoke: "idle", "running", "done", "failed"
    currentNode,        \* Invoke's cursor
    state,              \* Invoke's local state
    result,             \* the state Invoke returned
    err,                \* the error Invoke returned
    initialState,       \* the argument of Invoke
    lastExec,           \* name of the node function called last ("" if none)
    lastOut,            \* what that call returned: [state, err]
    now,                \* time.Now()
    cbCfg,              \* CircuitBreaker.config
    cbState,            \* CircuitBreaker.state
    failures,           \* CircuitBreaker.failures
    successes,          \* CircuitBreaker.successes
    lastFailureTime,    \* CircuitBreaker.lastFailureTime
    halfOpenCalls,      \* CircuitBreaker.halfOpenCalls
    cbPc,               \* Execute: "idle", or "inner" while cb.node.Function runs
    cbRet,              \* what the last Execute returned
    cbCalls,            \* calls of Execute so far
    cbCallCount,        \* calls of the wrapped function so far
    cbExecIn,           \* cb.state when the last call reached the wrapped function
    cbConsecFail,       \* wrapped-function failures since its last success
    cbProbeStreak,      \* HalfOpen successes since the last failure
    cbPeriodExecs,      \* wrapped-function calls in the current HalfOpen period
    cbLastFailAt,       \* <<t>>: the last failure returned at t; <<>>: none yet
    cbOpenedAt,         \* <<t, cause>>: the last entry into Open; <<>>: none yet
    rtCfg,              \* RetryNode.config
    rtScript,           \* the wrapped function: the errors of its first calls
    ctxDone,            \* the context of RetryNode.Execute is cancelled
    rtPc,               \* Execute: "idle", "sleep" or "done"
    attempt,            \* Execute's attempt
    delay,              \* Execute's delay
    lastErr,            \* Execute's lastErr
    rtRet,              \* what Execute returned: [kind, cause]
    rtCalls,            \* calls of the wrapped function so far
    rtSleeps,           \* the backoff sleeps completed so far, in order
    rlCfg,              \* RateLimiter.maxCalls and RateLimiter.window
    calls,              \* RateLimiter.calls
    rlPc,               \* Execute: "idle", "inner" or "panicked"
    rlRet,              \* what the last Execute returned: [kind, wait]
    rlCalls,            \* calls of Execute so far
    rlCallCount,        \* calls of the wrapped function so far
    rlExecTimes         \* when each call of the wrapped function was made

VARIABLES
    lgKinds,            \* the listenable graph: node functions of the chain
    listeners,          \* ListenableNode.listeners (the same on every node)
    lrPc,               \* ListenableRunnable.Invoke: "idle", "running", "done", "failed"
    lrNode,             \* Invoke's currentNode, as its place in the chain
    lrState,            \* Invoke's state
    lrRet,              \* what Invoke returned: [state, err]
    lnPc,               \* Execute: "idle", "start", "fn", "end" or "crashed"
    lnOut,              \* what ln.Function returned: [state, err]
    lnTasks,            \* the goroutines of the NotifyListeners in progress
    lnSeen,             \* per observer id: the events it got in this Execute
    lnFnCalls,          \* calls of ln.Function in this Execute
    lnExecs,            \* the node executions so far: [node, state, err]
    stCfg,              \* StreamConfig: [bufferSize, enableBackpressure]
    stPc,               \* Stream's goroutine: "none", "invoke", "defer", "closing", "finished"
    eventChan,          \* the events buffered in eventChan
    resultChan,         \* the values buffered in resultChan
    errorChan,          \* the values buffered in errorChan
    chClosed,           \* channels closed so far, in the order of the defer
    parentDone,         \* the context given to Stream is cancelled
    streamDone,         \* streamCtx is cancelled
    slClosed,           \* StreamingListener.closed
    droppedEvents,      \* StreamingListener.droppedEvents
    stSent,             \* every event sent into eventChan, in order
    stReceived,         \* events the StreamingListener got while not closed
    stOutcomes,         \* values sent on resultChan and errorChan so far
    consumer,           \* who reads the channels: "caller" or "executor"
    exPc,               \* ExecuteWithCallback: "none", "loop", "returned"
    finalResult,        \* ExecuteWithCallback's finalResult
    finalError,         \* ExecuteWithCallback's finalError
    resultReceived,     \* ExecuteWithCallback's resultReceived
    exCallbacks,        \* the calls of resultCallback: [result, err]
    exRet,              \* the error ExecuteWithCallback returned
    ckAutoSave,         \* CheckpointConfig.AutoSave
    ckStore,            \* MemoryCheckpointStore.checkpoints: the records saved
    ckPending           \* checkpoints whose save goroutine has not run yet

VARIABLES
    ccFrames,           \* per call of Invoke: its locals [currentNode, state]
    ccCalls,            \* per caller: [pc, arg, path, ret, overlap]
    rcRL,               \* per caller of RateLimiter.Execute: [pc, now]
    rcCB,               \* per caller of CircuitBreaker.Execute: [pc, tmp]
    rcOverlap,          \* [rl, cb]: two calls of Execute were under way at once
    tn,                 \* TimeoutNode and its one call of Execute
    ckErrs,             \* errors of CheckpointStore.Save: [failed, reported]
    tr,                 \* Tracer, its spans, its hooks, one TracedRunnable.Invoke
    cs                  \* the last call made on the MemoryCheckpointStore

VARIABLES
    pn,                 \* ParallelNode and its one call of Execute
    lgRun,              \* one ListenableRunnable.Invoke on a MessageGraph
    ov                  \* runs overlapping on one ListenableRunnable

graphVars ==
    <<nodes, edges, conditionalEdges, entryPoint, compiled, pc, currentNode,
      state, result, err, initialState, lastExec, lastOut>>

cbVars ==
    <<cbCfg, cbState, failures, successes, lastFailureTime, halfOpenCalls, cbPc,
      cbRet, cbCalls, cbCallCount, cbExecIn, cbConsecFail, cbProbeStreak,
      cbPeriodExecs, cbLastFailAt, cbOpenedAt>>

rtVars ==
    <<rtCfg, rtScript, ctxDone, rtPc, attempt, delay, lastErr, rtRet, rtCalls,
      rtSleeps>>

rlVars == <<rlCfg, calls, rlPc, rlRet, rlCalls, rlCallCount, rlExecTimes>>

\* ListenableRunnable.Invoke and ListenableNode.Execute
lnVars ==
    <<lgKinds, listeners, lrPc, lrNode, lrState, lrRet, lnPc, lnOut, lnTasks,
      lnSeen, lnFnCalls, lnExecs>>

\* StreamingListener and the goroutine of Stream
stVars ==
    <<stCfg, stPc, eventChan, resultChan, errorChan, chClosed, parentDone,
      streamDone, slClosed, droppedEvents, stSent, stReceived, stOutcomes>>

\* The reader of the channels
exVars ==
    <<consumer, exPc, finalResult, finalError, resultReceived, exCallbacks,
      exRet>>

\* CheckpointListener and its store
ckVars == <<ckAutoSave, ckStore, ckPending>>

listenVars == <<lnVars, stVars, exVars, ckVars>>

\* Concurrent calls of Runnable.Invoke
concVars == <<ccFrames, ccCalls>>

\* Concurrent calls of RateLimiter.Execute and CircuitBreaker.Execute
raceVars == <<rcRL, rcCB, rcOverlap>>

\* ParallelNode, the listenable engine on any graph
lateVars == <<pn, lgRun, ov>>

extVars == <<concVars, raceVars, tn, ckErrs, tr, cs, lateVars>>

vars == <<graphVars, now, cbVars, rtVars, rlVars, listenVars, extVars>>

\* What the operations of each component leave alone.
nonGraphVars == <<now, cbVars, rtVars, rlVars, listenVars, extVars>>

nonCBVars == <<graphVars, rtVars, rlVars, listenVars, extVars>>

nonRTVars == <<graphVars, now, cbVars, rlVars, listenVars, extVars>>

nonRLVars == <<graphVars, cbVars, rtVars, listenVars, extVars>>

nonListenVars == <<graphVars, cbVars, rtVars, rlVars, extVars>>

nonExtVars == <<graphVars, now, cbVars, rtVars, rlVars, listenVars>>

nonConcVars == <<nonExtVars, raceVars, tn, ckErrs, tr, cs, lateVars>>

nonRaceVars ==
    <<graphVars, rtVars, listenVars, concVars, tn, ckErrs, tr, cs, lateVars>>

nonTimeoutVars ==
    <<graphVars, cbVars, rtVars, rlVars, listenVars, concVars, raceVars, ckErrs,
      tr, cs, lateVars>>

nonTracerVars ==
    <<graphVars, cbVars, rtVars, rlVars, listenVars, concVars, raceVars, tn,
      ckErrs, cs, lateVars>>

nonStoreVars ==
    <<graphVars, now, cbVars, rtVars, rlVars, lnVars, stVars, exVars,
      ckAutoSave, ckPending, concVars, raceVars, tn, ckErrs, tr, lateVars>>

earlyVars ==
    <<graphVars, now, cbVars, rtVars, rlVars, listenVars, concVars, raceVars,
      tn, ckErrs, tr, cs>>

nonParallelVars == <<earlyVars, lgRun, ov>>

nonEngineVars == <<earlyVars, pn, ov>>

nonOverlapVars == <<earlyVars, pn, lgRun>>

\* ------------------------------------------------------------------------
\* graph.go: MessageGraph
\* ------------------------------------------------------------------------

\* NewMessageGraph
NewMessageGraph ==
    /\ nodes = <<>>
    /\ edges = <<>>
    /\ conditionalEdges = <<>>
    /\ entryPoint = ""
    /\ compiled = "no"

InvokeIdle ==
    /\ pc = "idle"
    /\ currentNode = ""
    /\ state = Nil
    /\ result = Nil
    /\ err = NoErr
    /\ initialState = Nil
    /\ lastExec = ""
    /\ lastOut = [state |-> Nil, err |-> "nil"]

invokeVars == <<pc, currentNode, state, result, err, initialState, lastExec, lastOut>>

\* m[k] = v, as a Go map assignment does it: the key is added or overwritten.
MapPut(m, k, v) == [x \in (DOMAIN m) \cup {k} |-> IF x = k THEN v ELSE m[x]]

AddNode(name, kind) ==
    /\ UNCHANGED nonGraphVars
    /\ compiled = "no"
    /\ nodes' = MapPut(nodes, name, kind)
    /\ UNCHANGED <<edges, conditionalEdges, entryPoint, compiled, invokeVars>>

AddEdge(from, to) ==
    /\ UNCHANGED nonGraphVars
    /\ compiled = "no"
    /\ Len(edges) < MaxEdges
    /\ edges' = Append(edges, [from |-> from, to |-> to])
    /\ UNCHANGED <<nodes, conditionalEdges, entryPoint, compiled, invokeVars>>

AddConditionalEdge(from, fn) ==
    /\ UNCHANGED nonGraphVars
    /\ compiled = "no"
    /\ conditionalEdges' = MapPut(conditionalEdges, from, fn)
    /\ UNCHANGED <<nodes, edges, entryPoint, compiled, invokeVars>>

SetEntryPoint(name) ==
    /\ UNCHANGED nonGraphVars
    /\ compiled = "no"
    /\ entryPoint' = name
    /\ UNCHANGED <<nodes, edges, conditionalEdges, compiled, invokeVars>>

\* Compile also checking that the entry point names a registered node.
CompileResult_Validates(entry) ==
    IF entry = "" \/ (entry # END /\ entry \notin DOMAIN nodes)
    THEN "EntryPointNotSet" ELSE "ok"

\* Compile's outcome: the only check is that an entry point is set.
CompileResult(entry) == IF entry = "" THEN "EntryPointNotSet" ELSE "ok"

Compile ==
    /\ UNCHANGED nonGraphVars
    /\ compiled = "no"
    /\ compiled' = CompileResult(entryPoint)
    /\ UNCHANGED <<nodes, edges, conditionalEdges, entryPoint, invokeVars>>

\* ------------------------------------------------------------------------
\* graph.go: Runnable.Invoke (InvokeWithConfig with a nil config, no tracer)
\* ------------------------------------------------------------------------

\* The loop over r.graph.edges: the target of the first edge from cur, or ""
\* with found = FALSE.
RECURSIVE FirstEdgeFrom(_, _, _)
FirstEdgeFrom(es, i, cur) ==
    IF i > Len(es) THEN [found |-> FALSE, to |-> ""]
    ELSE IF es[i].from = cur THEN [found |-> TRUE, to |-> es[i].to]
    ELSE FirstEdgeFrom(es, i + 1, cur)

\* Static edges looked up first, the conditional edge only without one.
ResolveNext_StaticFirst(cur, s) ==
    LET e == FirstEdgeFrom(edges, 1, cur)
    IN  IF e.found THEN [next |-> e.to, err |-> NoErr]
        ELSE IF cur \in DOMAIN conditionalEdges
        THEN LET nextNode == CondFunction(conditionalEdges[cur], s)
             IN  IF nextNode = ""
                 THEN [next |-> "", err |-> MkErr("EmptyConditionalTarget", cur, "")]
                 ELSE [next |-> nextNode, err |-> NoErr]
        ELSE [next |-> "", err |-> MkErr("NoOutgoingEdge", cur, "")]

\* "Determine next node": [next, err].
ResolveNext(cur, s) ==
    IF cur \in DOMAIN conditionalEdges
    THEN LET nextNode == CondFunction(conditionalEdges[cur], s)
         IN  IF nextNode = ""
             THEN [next |-> "", err |-> MkErr("EmptyConditionalTarget", cur, "")]
             ELSE [next |-> nextNode, err |-> NoErr]
    ELSE LET e == FirstEdgeFrom(edges, 1, cur)
         IN  IF e.found
             THEN [next |-> e.to, err |-> NoErr]
             ELSE [next |-> "", err |-> MkErr("NoOutgoingEdge", cur, "")]

\* The failing node's state returned with the error.
NodeError_PartialState(cur, out) ==
    [state |-> out.state, err |-> MkErr("NodeExecutionError", cur, out.err)]

\* What Invoke returns when a node function returned the error out.err.
NodeError(cur, out) == [state |-> Nil, err |-> MkErr("NodeExecutionError", cur, out.err)]

\* The initial state returned in place of the current one.
ReturnAtEnd_Initial(s) == [state |-> initialState, err |-> NoErr]

\* What Invoke returns when the cursor is END.
ReturnAtEnd(s) == [state |-> s, err |-> NoErr]

Invoke(s) ==
    /\ UNCHANGED nonGraphVars
    /\ compiled = "ok"
    /\ pc = "idle"
    /\ pc' = "running"
    /\ initialState' = s
    /\ state' = s
    /\ currentNode' = entryPoint
    /\ UNCHANGED <<nodes, edges, conditionalEdges, entryPoint, compiled,
                   result, err, lastExec, lastOut>>

Return(r) ==
    /\ pc' = IF r.err = NoErr THEN "done" ELSE "failed"
    /\ result' = r.state
    /\ err' = r.err

\* One iteration of Invoke's for loop.
InvokeStep ==
    /\ UNCHANGED nonGraphVars
    /\ pc = "running"
    /\ UNCHANGED <<nodes, edges, conditionalEdges, entryPoint, compiled, initialState>>
    /\ IF currentNode = END
       THEN /\ Return(ReturnAtEnd(state))
            /\ UNCHANGED <<currentNode, state, lastExec, lastOut>>
       ELSE IF currentNode \notin DOMAIN nodes
       THEN /\ Return([state |-> Nil, err |-> MkErr("NodeNotFound", currentNode, "")])
            /\ UNCHANGED <<currentNode, state, lastExec, lastOut>>
       ELSE LET out == NodeFunction(nodes[currentNode], state)
                nxt == ResolveNext(currentNode, out.state)
            IN  /\ lastExec' = currentNode
                /\ lastOut' = out
                /\ state' = out.state
                /\ IF out.err # "nil"
                   THEN /\ Return(NodeError(currentNode, out))
                        /\ UNCHANGED currentNode
                   ELSE IF nxt.err # NoErr
                   THEN /\ Return([state |-> Nil, err |-> nxt.err])
                        /\ UNCHANGED currentNode
                   ELSE /\ currentNode' = nxt.next
                        /\ UNCHANGED <<pc, result, err>>

\* ------------------------------------------------------------------------
\* retry.go: the clock
\* ------------------------------------------------------------------------

\* Time passes.
Tick ==
    /\ now < MaxClock
    /\ now' = now + 1

\* ------------------------------------------------------------------------
\* retry.go: CircuitBreaker
\* ------------------------------------------------------------------------

CBConfigs ==
    [failureThreshold : 1..MaxThreshold,
     successThreshold : 1..MaxThreshold,
     timeout          : 1..MaxTimeout,
     halfOpenMaxCalls : 1..MaxThreshold]

\* The configuration the breaker has in the specifications that do not use it.
CBNoConfig ==
    [failureThreshold |-> 0, successThreshold |-> 0, timeout |-> 0,
     halfOpenMaxCalls |-> 0]

\* NewCircuitBreaker: state Closed, the counters and the timestamp zero.
NewCircuitBreaker(config) ==
    /\ cbCfg = config
    /\ cbState = "Closed"
    /\ failures = 0
    /\ successes = 0
    /\ lastFailureTime = 0
    /\ halfOpenCalls = 0
    /\ cbPc = "idle"
    /\ cbRet = "none"
    /\ cbCalls = 0
    /\ cbCallCount = 0
    /\ cbExecIn = "none"
    /\ cbConsecFail = 0
    /\ cbProbeStreak = 0
    /\ cbPeriodExecs = 0
    /\ cbLastFailAt = <<>>
    /\ cbOpenedAt = <<>>

\* time.Since(cb.lastFailureTime) > cb.config.Timeout
CBTimeoutElapsed == now - lastFailureTime > cbCfg.timeout

\* cb.halfOpenCalls >= cb.config.HalfOpenMaxCalls
CBHalfOpenLimitReached == halfOpenCalls >= cbCfg.halfOpenMaxCalls

\* The threshold comparison off by one.
CBShouldOpen_OffByOne(f) == f > cbCfg.failureThreshold

\* cb.failures >= cb.config.FailureThreshold, for the updated count f
CBShouldOpen(f) == f >= cbCfg.failureThreshold

\* The threshold comparison off by one.
CBShouldClose_OffByOne(st, n) == st = "HalfOpen" /\ n > cbCfg.successThreshold

\* cb.state == CircuitHalfOpen && cb.successes >= cb.config.SuccessThreshold,
\* for the updated count n
CBShouldClose(st, n) == st = "HalfOpen" /\ n >= cbCfg.successThreshold

\* Execute returns before it reaches the wrapped function.
CBReject(r) ==
    /\ cbPc' = "idle"
    /\ cbRet' = r
    /\ cbExecIn' = "none"
    /\ UNCHANGED <<cbCallCount, cbPeriodExecs>>

\* Execute reaches cb.node.Function with cb.state = st.
CBProceed(st) ==
    /\ cbPc' = "inner"
    /\ cbExecIn' = st
    /\ cbCallCount' = cbCallCount + 1
    /\ UNCHANGED cbRet

\* Execute, from its entry to the call of the wrapped function: the switch
\* on cb.state.
CBEnter ==
    /\ cbPc = "idle"
    /\ cbCalls < MaxCBCalls
    /\ cbCalls' = cbCalls + 1
    /\ UNCHANGED <<cbCfg, failures, successes, lastFailureTime, cbConsecFail,
                   cbProbeStreak, cbLastFailAt, now, nonCBVars>>
    /\ CASE cbState = "Closed" ->
              /\ CBProceed("Closed")
              /\ UNCHANGED <<cbState, halfOpenCalls, cbPeriodExecs, cbOpenedAt>>
         [] cbState = "Open" ->
              IF CBTimeoutElapsed
              THEN /\ cbState' = "HalfOpen"
                   /\ halfOpenCalls' = 0
                   /\ cbPeriodExecs' = 1
                   /\ CBProceed("HalfOpen")
                   /\ UNCHANGED cbOpenedAt
              ELSE /\ CBReject("CircuitOpen")
                   /\ UNCHANGED <<cbState, halfOpenCalls, cbOpenedAt>>
         [] cbState = "HalfOpen" ->
              IF CBHalfOpenLimitReached
              THEN /\ cbState' = "Open"
                   /\ cbOpenedAt' = <<now, "quota">>
                   /\ CBReject("HalfOpenLimitReached")
                   /\ UNCHANGED halfOpenCalls
              ELSE /\ halfOpenCalls' = halfOpenCalls + 1
                   /\ cbPeriodExecs' = cbPeriodExecs + 1
                   /\ CBProceed("HalfOpen")
                   /\ UNCHANGED <<cbState, cbOpenedAt>>

\* Execute, from the return of the wrapped function to its own: ok tells
\* whether the wrapped function returned a nil error.
CBInnerReturn(ok) ==
    /\ cbPc = "inner"
    /\ cbPc' = "idle"
    /\ UNCHANGED <<cbCfg, halfOpenCalls, cbCalls, cbCallCount, cbExecIn,
                   cbPeriodExecs, now, nonCBVars>>
    /\ IF ~ok
       THEN /\ failures' = failures + 1
            /\ successes' = 0
            /\ lastFailureTime' = now
            /\ cbState' = IF CBShouldOpen(failures + 1) THEN "Open" ELSE cbState
            /\ cbRet' = "InnerError"
            /\ cbConsecFail' = cbConsecFail + 1
            /\ cbProbeStreak' = 0
            /\ cbLastFailAt' = <<now>>
            /\ cbOpenedAt' = IF CBShouldOpen(failures + 1) /\ cbState # "Open"
                             THEN <<now, "failure">> ELSE cbOpenedAt
       ELSE /\ successes' = successes + 1
            /\ failures' = 0
            /\ cbState' = IF CBShouldClose(cbState, successes + 1)
                          THEN "Closed" ELSE cbState
            /\ cbRet' = "ok"
            /\ cbConsecFail' = 0
            /\ cbProbeStreak' = IF cbExecIn = "HalfOpen"
                                THEN cbProbeStreak + 1 ELSE cbProbeStreak
            /\ UNCHANGED <<lastFailureTime, cbLastFailAt, cbOpenedAt>>

CBTick ==
    /\ Tick
    /\ UNCHANGED <<cbVars, nonCBVars>>

\* ------------------------------------------------------------------------
\* retry.go: RetryNode
\* ------------------------------------------------------------------------

\* Errors the wrapped function returns.
ErrKinds == {"transient", "fatal"}

\* BackoffFactor, as a fraction.
BackoffFactors == {[num |-> 2, den |-> 1], [num |-> 3, den |-> 2]}

\* RetryConfig.RetryableErrors: nil, or a classifier the caller supplies.
\*   all            retries every error (DefaultRetryConfig)
\*   transientOnly  retries "transient" and rejects "fatal"
Classifiers == {"nil", "all", "transientOnly"}

Classify(c, e) == c = "all" \/ e = "transient"

RetryConfigs ==
    [maxAttempts   : 0..MaxAttempts,
     initialDelay  : 0..MaxDelayUnits,
     maxDelay      : 0..MaxDelayUnits,
     backoffFactor : BackoffFactors,
     retryable     : Classifiers]

\* The wrapped function fails its i-th call with script[i] and succeeds from
\* call Len(script) + 1 on.
RetryScripts == UNION {[1..n -> ErrKinds] : n \in 0..MaxAttempts}

RetryNoConfig ==
    [maxAttempts |-> 0, initialDelay |-> 1, maxDelay |-> 1,
     backoffFactor |-> [num |-> 2, den |-> 1], retryable |-> "nil"]

\* NewRetryNode, and an Execute not yet called.
NewRetryNode(config, script) ==
    /\ rtCfg = config
    /\ rtScript = script
    /\ ctxDone = FALSE
    /\ rtPc = "idle"
    /\ attempt = 0
    /\ delay = 0
    /\ lastErr = "nil"
    /\ rtRet = [kind |-> "none", cause |-> "nil"]
    /\ rtCalls = 0
    /\ rtSleeps = <<>>

\* rn.node.Function, on its n-th call: "nil" or the error.
RetryInner(n) == IF n <= Len(rtScript) THEN rtScript[n] ELSE "nil"

\* The loop stops one attempt early.
RetryLoopCond_OffByOne(a) == a < rtCfg.maxAttempts

\* The for loop's condition: attempt <= rn.config.MaxAttempts
RetryLoopCond(a) == a <= rtCfg.maxAttempts

\* The classifier is not consulted.
RetryNotRetryable_Ignored(e) == FALSE

\* rn.config.RetryableErrors != nil && !rn.config.RetryableErrors(err)
RetryNotRetryable(e) == rtCfg.retryable # "nil" /\ ~Classify(rtCfg.retryable, e)

\* attempt < rn.config.MaxAttempts: a sleep follows the attempt
RetrySleepsAfter(a) == a < rtCfg.maxAttempts

\* The delay after a sleep of d: d times the factor, truncated, and at most
\* MaxDelay.
RetryNextDelay(d) ==
    LET grown == (d * rtCfg.backoffFactor.num) \div rtCfg.backoffFactor.den
    IN  IF grown > rtCfg.maxDelay THEN rtCfg.maxDelay ELSE grown

\* The loop from its condition for attempt a, with n calls of the wrapped
\* function made and lastErr = le, up to the next sleep or to the return:
\* where Execute is then, and what it returned.
RECURSIVE RetryIterate(_, _, _)
RetryIterate(a, n, le) ==
    LET Returns(k, c, m) ==
            [pc |-> "done", attempt |-> a, calls |-> m, lastErr |-> le,
             ret |-> [kind |-> k, cause |-> c]]
        e == RetryInner(n + 1)
    IN  IF ~RetryLoopCond(a) THEN Returns("RetryExhausted", le, n)
        ELSE IF ctxDone THEN Returns("Cancelled", "ctx", n)
        ELSE IF e = "nil" THEN Returns("ok", "nil", n + 1)
        ELSE IF RetryNotRetryable(e)
        THEN [Returns("NonRetryable", e, n + 1) EXCEPT !.lastErr = e]
        ELSE IF RetrySleepsAfter(a)
        THEN [pc |-> "sleep", attempt |-> a, calls |-> n + 1, lastErr |-> e,
              ret |-> rtRet]
        ELSE RetryIterate(a + 1, n + 1, e)

RetryGoOn(r) ==
    /\ rtPc' = r.pc
    /\ attempt' = r.attempt
    /\ rtCalls' = r.calls
    /\ lastErr' = r.lastErr
    /\ rtRet' = r.ret

\* Execute is called: lastErr is nil, delay is InitialDelay, attempt is 1.
RetryStart ==
    /\ rtPc = "idle"
    /\ delay' = rtCfg.initialDelay
    /\ RetryGoOn(RetryIterate(1, 0, "nil"))
    /\ UNCHANGED <<rtCfg, rtScript, ctxDone, rtSleeps, nonRTVars>>

\* time.After(delay) fires: the delay grows and the next iteration runs.
RetryWake ==
    /\ rtPc = "sleep"
    /\ rtSleeps' = Append(rtSleeps, delay)
    /\ delay' = RetryNextDelay(delay)
    /\ RetryGoOn(RetryIterate(attempt + 1, rtCalls, lastErr))
    /\ UNCHANGED <<rtCfg, rtScript, ctxDone, nonRTVars>>

\* ctx.Done() wins the select of the backoff.
RetryCancelledDuringBackoff ==
    /\ rtPc = "sleep"
    /\ ctxDone
    /\ rtPc' = "done"
    /\ rtRet' = [kind |-> "CancelledDuringBackoff", cause |-> "ctx"]
    /\ UNCHANGED <<rtCfg, rtScript, ctxDone, attempt, delay, lastErr, rtCalls,
                   rtSleeps, nonRTVars>>

\* The caller cancels the context.
CancelContext ==
    /\ ~ctxDone
    /\ ctxDone' = TRUE
    /\ UNCHANGED <<rtCfg, rtScript, rtPc, attempt, delay, lastErr, rtRet,
                   rtCalls, rtSleeps, nonRTVars>>

\* ------------------------------------------------------------------------
\* retry.go: RateLimiter
\* ------------------------------------------------------------------------

RLConfigs == [maxCalls : 0..MaxRate, window : 1..MaxWindow]

RLNoConfig == [maxCalls |-> 0, window |-> 1]

\* NewRateLimiter: no call recorded.
NewRateLimiter(config) ==
    /\ rlCfg = config
    /\ calls = <<>>
    /\ rlPc = "idle"
    /\ rlRet = [kind |-> "none", wait |-> 0]
    /\ rlCalls = 0
    /\ rlCallCount = 0
    /\ rlExecTimes = <<>>

\* The window test with its boundary included: a call made exactly window
\* ago still counts.
RLInWindow_Inclusive(t, callTime) == t - callTime <= rlCfg.window

\* now.Sub(callTime) < rl.window
RLInWindow(t, callTime) == t - callTime < rlCfg.window

\* "Remove old calls outside the window": the recorded calls still inside
\* it, in their order.
RLValidCalls(t) == SelectSeq(calls, LAMBDA callTime : RLInWindow(t, callTime))

\* len(rl.calls) >= rl.maxCalls
RLAtLimit(valid) == Len(valid) >= rlCfg.maxCalls

\* rl.window - now.Sub(oldestCall)
RLWaitTime(t, oldestCall) == rlCfg.window - (t - oldestCall)

\* Execute, from its entry to the call of the wrapped function. With the
\* limit reached and no call recorded, rl.calls[0] is out of range: Execute
\* panics.
RLEnter ==
    /\ rlPc = "idle"
    /\ rlCalls < MaxRLCalls
    /\ rlCalls' = rlCalls + 1
    /\ UNCHANGED <<rlCfg, now, nonRLVars>>
    /\ LET validCalls == RLValidCalls(now)
       IN  IF RLAtLimit(validCalls)
           THEN /\ calls' = validCalls
                /\ UNCHANGED <<rlCallCount, rlExecTimes>>
                /\ IF Len(validCalls) = 0
                   THEN /\ rlPc' = "panicked"
                        /\ rlRet' = [kind |-> "panic", wait |-> 0]
                   ELSE /\ rlPc' = "idle"
                        /\ rlRet' = [kind |-> "RateLimited",
                                     wait |-> RLWaitTime(now, validCalls[1])]
           ELSE /\ calls' = Append(validCalls, now)
                /\ rlPc' = "inner"
                /\ rlCallCount' = rlCallCount + 1
                /\ rlExecTimes' = Append(rlExecTimes, now)
                /\ UNCHANGED rlRet

\* The wrapped function returns, and Execute returns what it returned.
RLInnerReturn(ok) ==
    /\ rlPc = "inner"
    /\ rlPc' = "idle"
    /\ rlRet' = [kind |-> IF ok THEN "ok" ELSE "InnerError", wait |-> 0]
    /\ UNCHANGED <<rlCfg, calls, rlCalls, rlCallCount, rlExecTimes, now,
                   nonRLVars>>

RLTick ==
    /\ Tick
    /\ UNCHANGED <<rlVars, nonRLVars>>

\* ------------------------------------------------------------------------
\* listeners.go: values
\* ------------------------------------------------------------------------

\* The names of the nodes of a chain, in chain order:
\* ChainNames[1] -> ChainNames[2] -> ... -> END.
ChainNames == <<"A", "B", "C", "D">>

\* Node functions of a listenable graph: NodeKinds, and
\*   ctx  returns ctx.Err() when its context is cancelled, else as inc
ListenKinds == NodeKinds \cup {"ctx"}

ListenableFunction(kind, s, cancelled) ==
    IF kind \in {"ctx", "wait"}
    THEN IF cancelled THEN [state |-> Nil, err |-> "ctx"]
         ELSE NodeFunction("inc", s)
    ELSE NodeFunction(kind, s)

Chains == UNION {[1..n -> ListenKinds] : n \in 1..MaxChain}

\* Chains with a long-running node:
\*   wait  returns only once its context is cancelled, then ctx.Err()
CancelChains ==
    {c \in UNION {[1..n -> {"inc", "wait"}] : n \in 1..MaxChain} :
        \E i \in 1..Len(c) : c[i] = "wait"}

\* The arguments of one OnNodeEvent call.
MkEvent(event, nodeName, s, e) ==
    [event |-> event, node |-> nodeName, state |-> s, err |-> e]

\* Observers. A caller's observer returns ("plain") or panics ("panic"):
\* observer 1 is the one that panics. Id 0 is the transient listener Stream
\* or CheckpointableRunnable.Invoke attaches.
ListenerPool ==
    {[id |-> i, kind |-> IF i = 1 THEN "panic" ELSE "plain"] :
        i \in 1..MaxListeners}

\* The initial states a caller passes to a listenable runnable.
ListenInputs == {<<0>>}

StreamingListenerRec == [id |-> 0, kind |-> "stream"]

CheckpointListenerRec == [id |-> 0, kind |-> "ckpt"]

ListenerIds == 0..MaxListeners

\* ------------------------------------------------------------------------
\* StreamingListener
\* ------------------------------------------------------------------------

StreamConfigs ==
    [bufferSize : 0..MaxBuffer, enableBackpressure : BOOLEAN]

StreamNoConfig == [bufferSize |-> 0, enableBackpressure |-> FALSE]

\* A receive on Events is in progress: only then can a send on an
\* unbuffered eventChan go through.
ReceiverWaiting == consumer = "caller" \/ exPc = "loop"

\* handleBackpressure is reached, and counts the dropped event, only with
\* EnableBackpressure set.
CountsDrop_Always(config) == TRUE

CountsDrop(config) == config.enableBackpressure

\* StreamingListener.OnNodeEvent: nothing when closed; else a non-blocking
\* send, the event being dropped when eventChan cannot take it.
StreamingOnNodeEvent(ev) ==
    IF slClosed
    THEN UNCHANGED <<eventChan, droppedEvents, stSent, stReceived>>
    ELSE /\ stReceived' = stReceived + 1
         /\ \/ /\ Len(eventChan) < stCfg.bufferSize
               /\ eventChan' = Append(eventChan, ev)
               /\ stSent' = Append(stSent, ev)
               /\ UNCHANGED droppedEvents
            \/ /\ stCfg.bufferSize = 0
               /\ ReceiverWaiting
               /\ stSent' = Append(stSent, ev)
               /\ UNCHANGED <<eventChan, droppedEvents>>
            \/ /\ Len(eventChan) >= stCfg.bufferSize
               /\ droppedEvents' =
                      IF CountsDrop(stCfg) THEN droppedEvents + 1
                      ELSE droppedEvents
               /\ UNCHANGED <<eventChan, stSent>>

\* ------------------------------------------------------------------------
\* CheckpointListener and MemoryCheckpointStore
\* ------------------------------------------------------------------------

\* generateCheckpointID: "checkpoint_%d" of the clock reading.
generateCheckpointID == <<"checkpoint", now>>

\* generateExecutionID, called once by NewCheckpointableRunnable.
executionID == <<"exec", 0>>

\* The guard of OnNodeEvent without its test of the event kind.
CheckpointShouldSave_AnyEvent(ev) == ckAutoSave

\* The guard of OnNodeEvent letting "error" events through.
CheckpointShouldSave_OnError(ev) ==
    ckAutoSave /\ ev.event \in {"complete", "error"}

\* OnNodeEvent saves on a "complete" event without error, AutoSave on.
CheckpointShouldSave(ev) ==
    ckAutoSave /\ ev.event = "complete" /\ ev.err = "nil"

\* CheckpointListener.OnNodeEvent: builds the checkpoint and starts the
\* goroutine that saves it.
CheckpointOnNodeEvent(ev) ==
    IF CheckpointShouldSave(ev)
    THEN ckPending' = ckPending \cup
             {[id |-> generateCheckpointID, nodeName |-> ev.node,
               state |-> ev.state, execution_id |-> executionID]}
    ELSE UNCHANGED ckPending

\* The save goroutine runs MemoryCheckpointStore.Save:
\* m.checkpoints[checkpoint.ID] = checkpoint.
Save(checkpoint) ==
    /\ checkpoint \in ckPending
    /\ ckPending' = ckPending \ {checkpoint}
    /\ ckStore' = MapPut(ckStore, checkpoint.id, checkpoint)
    /\ UNCHANGED <<ckAutoSave, lnVars, stVars, exVars, now, nonListenVars>>

\* MemoryCheckpointStore.List
List(execID) ==
    {ckStore[id] : id \in {i \in DOMAIN ckStore :
                              ckStore[i].execution_id = execID}}

\* CheckpointableRunnable.ListCheckpoints
ListCheckpoints == List(executionID)

\* The error of Save handed on to the caller.
IgnoreSaveError_Reported(errs) ==
    [failed |-> errs.failed + 1, reported |-> errs.reported + 1]

\* `if saveErr := cl.store.Save(ctx, checkpoint); saveErr != nil { _ = saveErr }`
IgnoreSaveError(errs) == [errs EXCEPT !.failed = @ + 1]

\* The save goroutine runs the Save of a store that fails, as
\* FileCheckpointStore.Save does when its writer does: nothing is stored and
\* the error is dropped.
SaveFails(checkpoint) ==
    /\ checkpoint \in ckPending
    /\ ckPending' = ckPending \ {checkpoint}
    /\ ckErrs' = IgnoreSaveError(ckErrs)
    /\ UNCHANGED <<ckAutoSave, ckStore, lnVars, stVars, exVars, now>>
    /\ UNCHANGED <<graphVars, cbVars, rtVars, rlVars, concVars, raceVars, tn>>
    /\ UNCHANGED <<tr, cs, lateVars>>

\* ------------------------------------------------------------------------
\* MemoryCheckpointStore called directly
\* ------------------------------------------------------------------------

\* Execution ids a caller writes into Metadata["execution_id"].
ExecIDs == {<<"exec", k>> : k \in 0..(MaxExecs - 1)}

\* Metadata without a string under "execution_id": the type assertion of
\* List and Clear yields ok = false.
NoExecID == <<>>

\* The checkpoints a caller hands to Save.
StoreCheckpoints ==
    {[id |-> <<"checkpoint", n>>, nodeName |-> "A", state |-> s,
      execution_id |-> e] :
        n \in 1..MaxCheckpoints, s \in ListenInputs,
        e \in ExecIDs \cup {NoExecID}}

\* [op, arg, ret]: the call, its argument and what it returned; before is
\* the content of the store when a Load, List or Clear was called.
NoStoreCall == [op |-> "none", arg |-> Nil, ret |-> Nil, before |-> <<>>]

\* No call has been made on the store.
StoreNone == cs = NoStoreCall

\* MemoryCheckpointStore.Save, called by the owner of the store.
StoreSave(checkpoint) ==
    /\ ckStore' = MapPut(ckStore, checkpoint.id, checkpoint)
    /\ cs' = [op |-> "Save", arg |-> checkpoint.id, ret |-> "nil",
              before |-> <<>>]
    /\ UNCHANGED nonStoreVars

\* MemoryCheckpointStore.Load
Load(checkpointID) ==
    /\ cs' = [op |-> "Load", arg |-> checkpointID,
              ret |-> IF checkpointID \in DOMAIN ckStore
                      THEN [checkpoint |-> ckStore[checkpointID],
                            err |-> "nil"]
                      ELSE [checkpoint |-> Nil, err |-> "CheckpointNotFound"],
              before |-> ckStore]
    /\ UNCHANGED <<ckStore, nonStoreVars>>

\* List as a call whose result the caller keeps.
StoreList(execID) ==
    /\ cs' = [op |-> "List", arg |-> execID, ret |-> List(execID),
              before |-> ckStore]
    /\ UNCHANGED <<ckStore, nonStoreVars>>

\* MemoryCheckpointStore.Delete: delete(m.checkpoints, checkpointID)
Delete(checkpointID) ==
    /\ ckStore' = [id \in DOMAIN ckStore \ {checkpointID} |-> ckStore[id]]
    /\ cs' = [op |-> "Delete", arg |-> checkpointID, ret |-> "nil",
              before |-> <<>>]
    /\ UNCHANGED nonStoreVars

\* Clear deleting every checkpoint, whatever its execution id.
ClearKeeps_None(checkpoint, execID) == FALSE

\* The test of Clear's loop, negated: the checkpoint stays unless its
\* Metadata["execution_id"] is a string equal to executionID.
ClearKeeps(checkpoint, execID) ==
    ~(checkpoint.execution_id # NoExecID /\ checkpoint.execution_id = execID)

\* MemoryCheckpointStore.Clear
Clear(execID) ==
    /\ ckStore' = [id \in {i \in DOMAIN ckStore :
                              ClearKeeps(ckStore[i], execID)} |-> ckStore[id]]
    /\ cs' = [op |-> "Clear", arg |-> execID, ret |-> "nil",
              before |-> ckStore]
    /\ UNCHANGED nonStoreVars

\* ------------------------------------------------------------------------
\* listeners.go: ListenableNode
\* ------------------------------------------------------------------------

\* ln.listeners without its first occurrence of l.
RECURSIVE RemoveFirst(_, _)
RemoveFirst(ls, l) ==
    IF ls = <<>> THEN <<>>
    ELSE IF Head(ls) = l THEN Tail(ls)
    ELSE <<Head(ls)>> \o RemoveFirst(Tail(ls), l)

Registered(l) == \E i \in 1..Len(listeners) : listeners[i] = l

\* AddListener, by a caller: at any time, a dispatch in progress included.
AddListener(l) ==
    /\ ~Registered(l)
    /\ \A i \in 1..Len(listeners) : listeners[i].id # l.id
    /\ listeners' = Append(listeners, l)
    /\ UNCHANGED <<lgKinds, lrPc, lrNode, lrState, lrRet, lnPc, lnOut, lnTasks,
                   lnSeen, lnFnCalls, lnExecs>>
    /\ UNCHANGED <<stVars, exVars, ckVars, now, nonListenVars>>

\* RemoveListener, by a caller.
RemoveListener(l) ==
    /\ Registered(l)
    /\ listeners' = RemoveFirst(listeners, l)
    /\ UNCHANGED <<lgKinds, lrPc, lrNode, lrState, lrRet, lnPc, lnOut, lnTasks,
                   lnSeen, lnFnCalls, lnExecs>>
    /\ UNCHANGED <<stVars, exVars, ckVars, now, nonListenVars>>

\* NotifyListeners up to wg.Wait: the list is copied and one goroutine is
\* started per copied listener.
NotifyListeners(ev) ==
    lnTasks' = [i \in 1..Len(listeners) |->
                   [l |-> listeners[i], ev |-> ev, st |-> "ready"]]

\* wg.Wait returning at once.
WaitGroupDone_NoWait(tasks) == TRUE

\* wg.Wait returns once every goroutine has called wg.Done.
WaitGroupDone(tasks) == \A i \in 1..Len(tasks) : tasks[i].st = "done"

\* A goroutine without the deferred recover: a panic ends the program.
ListenerOutcome_NoRecover(kind) == IF kind = "panic" THEN "crashed" ELSE "done"

\* How a goroutine of NotifyListeners ends: the deferred recover swallows
\* a panic of the observer, then wg.Done runs.
ListenerOutcome(kind) == "done"

\* A goroutine of NotifyListeners calls l.OnNodeEvent.
ListenerBegin(i) ==
    /\ lnPc \in {"start", "end"}
    /\ i \in 1..Len(lnTasks)
    /\ lnTasks[i].st = "ready"
    /\ lnTasks' = [lnTasks EXCEPT ![i].st = "running"]
    /\ lnSeen' = [lnSeen EXCEPT ![lnTasks[i].l.id] =
                      Append(@, lnTasks[i].ev.event)]
    /\ IF lnTasks[i].l.kind = "stream"
       THEN StreamingOnNodeEvent(lnTasks[i].ev)
       ELSE UNCHANGED <<eventChan, droppedEvents, stSent, stReceived>>
    /\ IF lnTasks[i].l.kind = "ckpt"
       THEN CheckpointOnNodeEvent(lnTasks[i].ev)
       ELSE UNCHANGED ckPending
    /\ UNCHANGED <<lgKinds, listeners, lrPc, lrNode, lrState, lrRet, lnPc,
                   lnOut, lnFnCalls, lnExecs>>
    /\ UNCHANGED <<stCfg, stPc, resultChan, errorChan, chClosed, parentDone,
                   streamDone, slClosed, stOutcomes>>
    /\ UNCHANGED <<exVars, ckAutoSave, ckStore, now, nonListenVars>>

\* l.OnNodeEvent returns or panics, and the goroutine ends.
ListenerEnd(i) ==
    /\ lnPc \in {"start", "end"}
    /\ i \in 1..Len(lnTasks)
    /\ lnTasks[i].st = "running"
    /\ lnTasks' = [lnTasks EXCEPT ![i].st = ListenerOutcome(lnTasks[i].l.kind)]
    /\ lnPc' = IF ListenerOutcome(lnTasks[i].l.kind) = "crashed"
               THEN "crashed" ELSE lnPc
    /\ UNCHANGED <<lgKinds, listeners, lrPc, lrNode, lrState, lrRet, lnOut,
                   lnSeen, lnFnCalls, lnExecs>>
    /\ UNCHANGED <<stVars, exVars, ckVars, now, nonListenVars>>

\* Execute begins: NotifyListeners(ctx, NodeEventStart, state, nil).
ListenableExecute ==
    /\ lnPc' = "start"
    /\ NotifyListeners(MkEvent("start", ChainNames[lrNode], lrState, "nil"))
    /\ lnSeen' = [id \in ListenerIds |-> <<>>]
    /\ lnFnCalls' = 0
    /\ UNCHANGED <<lrPc, lrNode, lrState, lrRet, lnOut, lnExecs, listeners>>

\* The first wg.Wait has returned: Execute calls ln.Function.
ListenableCallFunction ==
    /\ lnPc = "start"
    /\ WaitGroupDone(lnTasks)
    /\ lnPc' = "fn"
    /\ lnFnCalls' = lnFnCalls + 1
    /\ UNCHANGED <<lgKinds, listeners, lrPc, lrNode, lrState, lrRet, lnOut,
                   lnTasks, lnSeen, lnExecs>>
    /\ UNCHANGED <<stVars, exVars, ckVars, now, nonListenVars>>

\* ln.Function returns: NotifyListeners with NodeEventError, the input state
\* and the error, or with NodeEventComplete and the result.
ListenableFunctionReturn ==
    /\ lnPc = "fn"
    /\ lgKinds[lrNode] = "wait" => streamDone
    /\ LET out == ListenableFunction(lgKinds[lrNode], lrState, streamDone)
       IN  /\ lnOut' = out
           /\ lnExecs' = Append(lnExecs, [node |-> ChainNames[lrNode],
                                          state |-> out.state,
                                          err |-> out.err])
           /\ IF out.err # "nil"
              THEN NotifyListeners(MkEvent("error", ChainNames[lrNode],
                                           lrState, out.err))
              ELSE NotifyListeners(MkEvent("complete", ChainNames[lrNode],
                                           out.state, "nil"))
    /\ lnPc' = "end"
    /\ UNCHANGED <<lgKinds, listeners, lrPc, lrNode, lrState, lrRet, lnSeen,
                   lnFnCalls>>
    /\ UNCHANGED <<stVars, exVars, ckVars, now, nonListenVars>>

\* ------------------------------------------------------------------------
\* listeners.go: ListenableRunnable
\* ------------------------------------------------------------------------

\* The deferred function of CheckpointableRunnable.Invoke: the checkpoint
\* listener is removed from the nodes when Invoke returns.
DetachCheckpointListener(ls) == RemoveFirst(ls, CheckpointListenerRec)

\* An edge search that passes over the node's own edge.
ChainNext_Skip(n) == n + 2

\* "Find next node": the target of the first edge from the current node,
\* which in a chain is the node after it (END after the last).
ChainNext(n) == n + 1

\* Invoke returns.
ListenableReturn(r, s, e) ==
    /\ lrPc' = r
    /\ lrRet' = [state |-> s, err |-> e]
    /\ listeners' = DetachCheckpointListener(listeners)

\* Invoke is entered: state := initialState, currentNode := entryPoint.
ListenableInvoke(s) ==
    /\ lrPc = "idle"
    /\ lrPc' = "running"
    /\ lrNode' = 1
    /\ lrState' = s
    /\ UNCHANGED <<lgKinds, lrRet, lnPc, lnOut, lnTasks, lnSeen, lnFnCalls,
                   lnExecs>>

\* The head of Invoke's loop: at END Invoke returns the state, else the
\* current node's Execute is called.
ListenableInvokeStep ==
    /\ lrPc = "running"
    /\ lnPc = "idle"
    /\ IF lrNode > Len(lgKinds)
       THEN /\ ListenableReturn("done", lrState, "nil")
            /\ UNCHANGED <<lrNode, lrState, lnPc, lnOut, lnTasks, lnSeen,
                           lnFnCalls, lnExecs>>
       ELSE ListenableExecute
    /\ UNCHANGED lgKinds
    /\ UNCHANGED <<stVars, exVars, ckVars, now, nonListenVars>>

\* The second wg.Wait has returned: Execute returns (result, err), and
\* Invoke returns (nil, err) or moves along the first edge of the node.
ListenableExecuteReturn ==
    /\ lnPc = "end"
    /\ WaitGroupDone(lnTasks)
    /\ lnPc' = "idle"
    /\ IF lnOut.err # "nil"
       THEN /\ ListenableReturn("failed", Nil, lnOut.err)
            /\ UNCHANGED <<lrNode, lrState>>
       ELSE /\ lrState' = lnOut.state
            /\ lrNode' = ChainNext(lrNode)
            /\ UNCHANGED <<lrPc, lrRet, listeners>>
    /\ UNCHANGED <<lgKinds, lnOut, lnTasks, lnSeen, lnFnCalls, lnExecs>>
    /\ UNCHANGED <<stVars, exVars, ckVars, now, nonListenVars>>

\* NewListenableMessageGraph, AddNode and AddEdge along a chain,
\* SetEntryPoint on its first node, CompileListenable.
CompileListenable(chain) ==
    /\ lgKinds = chain
    /\ listeners = <<>>
    /\ lrPc = "idle"
    /\ lrNode = 0
    /\ lrState = Nil
    /\ lrRet = [state |-> Nil, err |-> "nil"]
    /\ lnPc = "idle"
    /\ lnOut = [state |-> Nil, err |-> "nil"]
    /\ lnTasks = <<>>
    /\ lnSeen = [id \in ListenerIds |-> <<>>]
    /\ lnFnCalls = 0
    /\ lnExecs = <<>>

\* ------------------------------------------------------------------------
\* StreamingRunnable.Stream
\* ------------------------------------------------------------------------

\* The channels of a StreamResult, in the order the deferred function of
\* Stream's goroutine closes them.
\* The deferred function closing doneChan first.
ChannelOrder_DoneFirst == <<"done", "events", "result", "errors">>

ChannelOrder == <<"events", "result", "errors", "done">>

Closed(c) == \E i \in 1..chClosed : ChannelOrder[i] = c

NewStreamingRunnable(config) ==
    /\ stCfg = config
    /\ stPc = "none"
    /\ eventChan = <<>>
    /\ resultChan = <<>>
    /\ errorChan = <<>>
    /\ chClosed = 0
    /\ parentDone = FALSE
    /\ streamDone = FALSE
    /\ slClosed = FALSE
    /\ droppedEvents = 0
    /\ stSent = <<>>
    /\ stReceived = 0
    /\ stOutcomes = 0

NoConsumer ==
    /\ consumer = "none"
    /\ exPc = "none"
    /\ finalResult = Nil
    /\ finalError = "nil"
    /\ resultReceived = FALSE
    /\ exCallbacks = <<>>
    /\ exRet = "nil"

\* Stream up to its return: the channels and streamCtx are made, the
\* streaming listener is added to every node, and the goroutine starts and
\* enters sr.runnable.Invoke.
StreamStart(s) ==
    /\ stPc = "none"
    /\ stPc' = "invoke"
    /\ eventChan' = <<>>
    /\ resultChan' = <<>>
    /\ errorChan' = <<>>
    /\ streamDone' = parentDone
    /\ listeners' = Append(listeners, StreamingListenerRec)
    /\ ListenableInvoke(s)
    /\ UNCHANGED <<stCfg, chClosed, parentDone, slClosed, droppedEvents, stSent,
                   stReceived, stOutcomes>>
    /\ UNCHANGED <<ckVars, now, nonListenVars>>

\* Stream, called by a caller that reads the channels itself.
Stream(s) ==
    /\ StreamStart(s)
    /\ consumer' = "caller"
    /\ UNCHANGED <<exPc, finalResult, finalError, resultReceived, exCallbacks,
                   exRet>>

\* The goroutine, after Invoke has returned: a select between sending the
\* outcome (errorChan or resultChan, both of capacity 1 and empty) and
\* streamCtx.Done(). With streamCtx cancelled both cases are ready and
\* either is taken.
StreamSendOutcome ==
    /\ stPc = "invoke"
    /\ lrPc \in {"done", "failed"}
    /\ stPc' = "defer"
    /\ \/ /\ stOutcomes' = stOutcomes + 1
          /\ IF lrRet.err # "nil"
             THEN /\ errorChan' = Append(errorChan, lrRet.err)
                  /\ UNCHANGED resultChan
             ELSE /\ resultChan' = Append(resultChan, lrRet.state)
                  /\ UNCHANGED errorChan
       \/ /\ streamDone
          /\ UNCHANGED <<stOutcomes, resultChan, errorChan>>
    /\ UNCHANGED <<stCfg, eventChan, chClosed, parentDone, streamDone, slClosed,
                   droppedEvents, stSent, stReceived>>
    /\ UNCHANGED <<lnVars, exVars, ckVars, now, nonListenVars>>

\* The deferred function, up to its sleep: streamingListener.Close() and
\* RemoveListener on every node.
StreamCleanup ==
    /\ stPc = "defer"
    /\ stPc' = "closing"
    /\ slClosed' = TRUE
    /\ listeners' = RemoveFirst(listeners, StreamingListenerRec)
    /\ UNCHANGED <<lgKinds, lrPc, lrNode, lrState, lrRet, lnPc, lnOut, lnTasks,
                   lnSeen, lnFnCalls, lnExecs>>
    /\ UNCHANGED <<stCfg, eventChan, resultChan, errorChan, chClosed,
                   parentDone, streamDone, droppedEvents, stSent, stReceived,
                   stOutcomes>>
    /\ UNCHANGED <<exVars, ckVars, now, nonListenVars>>

\* The deferred function closes its next channel.
StreamCloseNext ==
    /\ stPc = "closing"
    /\ chClosed' = chClosed + 1
    /\ stPc' = IF chClosed' = Len(ChannelOrder) THEN "finished" ELSE "closing"
    /\ UNCHANGED <<stCfg, eventChan, resultChan, errorChan, parentDone,
                   streamDone, slClosed, droppedEvents, stSent, stReceived,
                   stOutcomes>>
    /\ UNCHANGED <<lnVars, exVars, ckVars, now, nonListenVars>>

\* The caller calls StreamResult.Cancel.
StreamCancel ==
    /\ consumer = "caller"
    /\ ~streamDone
    /\ streamDone' = TRUE
    /\ UNCHANGED <<stCfg, stPc, eventChan, resultChan, errorChan, chClosed,
                   parentDone, slClosed, droppedEvents, stSent, stReceived,
                   stOutcomes>>
    /\ UNCHANGED <<lnVars, exVars, ckVars, now, nonListenVars>>

\* The context given to Stream is cancelled, and streamCtx with it.
ParentCancel ==
    /\ ~parentDone
    /\ parentDone' = TRUE
    /\ streamDone' = TRUE
    /\ UNCHANGED <<stCfg, stPc, eventChan, resultChan, errorChan, chClosed,
                   slClosed, droppedEvents, stSent, stReceived, stOutcomes>>
    /\ UNCHANGED <<lnVars, exVars, ckVars, now, nonListenVars>>

\* The caller receives an event.
ConsumeEvent ==
    /\ consumer = "caller"
    /\ eventChan # <<>>
    /\ eventChan' = Tail(eventChan)
    /\ UNCHANGED <<stCfg, stPc, resultChan, errorChan, chClosed, parentDone,
                   streamDone, slClosed, droppedEvents, stSent, stReceived,
                   stOutcomes>>
    /\ UNCHANGED <<lnVars, exVars, ckVars, now, nonListenVars>>

\* ------------------------------------------------------------------------
\* StreamingExecutor.ExecuteWithCallback
\* ------------------------------------------------------------------------

\* ExecuteWithCallback up to its loop: se.runnable.Stream(ctx, initialState).
ExecuteWithCallback(s) ==
    /\ StreamStart(s)
    /\ consumer' = "executor"
    /\ exPc' = "loop"
    /\ finalResult' = Nil
    /\ finalError' = "nil"
    /\ resultReceived' = FALSE
    /\ UNCHANGED <<exCallbacks, exRet>>

\* ExecuteWithCallback returns e, after resultCallback when a result was
\* received; the deferred streamResult.Cancel() runs.
ExecReturn(e, withCallback) ==
    /\ exPc' = "returned"
    /\ exRet' = e
    /\ exCallbacks' =
           IF withCallback /\ resultReceived
           THEN Append(exCallbacks, [result |-> finalResult, err |-> finalError])
           ELSE exCallbacks
    /\ streamDone' = TRUE
    /\ UNCHANGED <<consumer, finalResult, finalError, resultReceived>>

\* case event, ok := <-streamResult.Events
ExecOnEvent ==
    /\ exPc = "loop"
    /\ eventChan # <<>> \/ Closed("events")
    /\ IF eventChan # <<>>
       THEN /\ eventChan' = Tail(eventChan)
            /\ UNCHANGED <<exVars, streamDone>>
       ELSE /\ ExecReturn(finalError, TRUE)
            /\ UNCHANGED eventChan
    /\ UNCHANGED <<stCfg, stPc, resultChan, errorChan, chClosed, parentDone,
                   slClosed, droppedEvents, stSent, stReceived, stOutcomes>>
    /\ UNCHANGED <<lnVars, ckVars, now, nonListenVars>>

\* case result := <-streamResult.Result: a receive on the closed and empty
\* channel yields nil.
ExecOnResult ==
    /\ exPc = "loop"
    /\ resultChan # <<>> \/ Closed("result")
    /\ finalResult' = IF resultChan # <<>> THEN Head(resultChan) ELSE Nil
    /\ resultChan' = IF resultChan # <<>> THEN Tail(resultChan) ELSE resultChan
    /\ resultReceived' = TRUE
    /\ UNCHANGED <<consumer, exPc, finalError, exCallbacks, exRet>>
    /\ UNCHANGED <<stCfg, stPc, eventChan, errorChan, chClosed, parentDone,
                   streamDone, slClosed, droppedEvents, stSent, stReceived,
                   stOutcomes>>
    /\ UNCHANGED <<lnVars, ckVars, now, nonListenVars>>

\* case err := <-streamResult.Errors
ExecOnError ==
    /\ exPc = "loop"
    /\ errorChan # <<>> \/ Closed("errors")
    /\ finalError' = IF errorChan # <<>> THEN Head(errorChan) ELSE "nil"
    /\ errorChan' = IF errorChan # <<>> THEN Tail(errorChan) ELSE errorChan
    /\ resultReceived' = TRUE
    /\ UNCHANGED <<consumer, exPc, finalResult, exCallbacks, exRet>>
    /\ UNCHANGED <<stCfg, stPc, eventChan, resultChan, chClosed, parentDone,
                   streamDone, slClosed, droppedEvents, stSent, stReceived,
                   stOutcomes>>
    /\ UNCHANGED <<lnVars, ckVars, now, nonListenVars>>

\* case <-streamResult.Done
ExecOnDone ==
    /\ exPc = "loop"
    /\ Closed("done")
    /\ ExecReturn(finalError, TRUE)
    /\ UNCHANGED <<stCfg, stPc, eventChan, resultChan, errorChan, chClosed,
                   parentDone, slClosed, droppedEvents, stSent, stReceived,
                   stOutcomes>>
    /\ UNCHANGED <<lnVars, ckVars, now, nonListenVars>>

\* case <-ctx.Done(): return ctx.Err()
ExecOnCtxDone ==
    /\ exPc = "loop"
    /\ parentDone
    /\ ExecReturn("ctx", FALSE)
    /\ UNCHANGED <<stCfg, stPc, eventChan, resultChan, errorChan, chClosed,
                   parentDone, slClosed, droppedEvents, stSent, stReceived,
                   stOutcomes>>
    /\ UNCHANGED <<lnVars, ckVars, now, nonListenVars>>

\* ------------------------------------------------------------------------
\* CheckpointableRunnable
\* ------------------------------------------------------------------------

NewCheckpointableRunnable(autoSave) ==
    /\ ckAutoSave = autoSave
    /\ ckStore = <<>>
    /\ ckPending = {}

\* CheckpointableRunnable.Invoke up to cr.runnable.Invoke: the checkpoint
\* listener is added to every node.
CheckpointableInvoke(s) ==
    /\ listeners' = Append(listeners, CheckpointListenerRec)
    /\ ListenableInvoke(s)
    /\ UNCHANGED <<stVars, exVars, ckVars, now, nonListenVars>>

\* ListenableRunnable.Invoke, called by a caller.
PlainInvoke(s) ==
    /\ ListenableInvoke(s)
    /\ UNCHANGED <<listeners, stVars, exVars, ckVars, now, nonListenVars>>

ListenTick ==
    /\ Tick
    /\ UNCHANGED <<listenVars, nonListenVars>>

\* ------------------------------------------------------------------------
\* retry.go: TimeoutNode
\* ------------------------------------------------------------------------

\* NewTimeoutNode, before Execute is called.
\*   kind, timeout   the wrapped function and tn.timeout
\*   pc              Execute: "idle", "select" or "returned"
\*   inner           the goroutine of the wrapped function: "none", "running"
\*                   or "finished"
\*   resultChan      the values buffered in resultChan (capacity 1)
\*   start           when context.WithTimeout was called
\*   parentDone      the caller's context is cancelled
\*   ret             what Execute returned: [state, err]
\*   out             what the wrapped function returned
\*   doneAt          <<t>>: the wrapped function returned at t
\*   retAt           <<t>>: Execute returned at t
\*   doneAtRet       timeoutCtx was done when Execute returned
\*   innerAtRet      the state of the goroutine when Execute returned
NewTimeoutNode(kind, timeout) ==
    [kind |-> kind, timeout |-> timeout, pc |-> "idle", inner |-> "none",
     resultChan |-> <<>>, start |-> 0, parentDone |-> FALSE, in |-> Nil,
     ret |-> [state |-> Nil, err |-> "nil"],
     out |-> [state |-> Nil, err |-> "nil"],
     doneAt |-> <<>>, retAt |-> <<>>, doneAtRet |-> FALSE, innerAtRet |-> "none"]

\* The deadline of context.WithTimeout(ctx, tn.timeout).
TimeoutDeadline == tn.start + tn.timeout

\* timeoutCtx.Done() is closed: the deadline has passed, the caller's context
\* is cancelled, or the deferred cancel() has run.
TimeoutCtxDone ==
    \/ now >= TimeoutDeadline
    \/ tn.parentDone
    \/ tn.pc = "returned"

\* The error of the wrapped function dropped.
TimeoutResult_DropsErr(res) == [state |-> res.state, err |-> "nil"]

\* `return res.value, res.err`
TimeoutResult(res) == res

\* `return nil, fmt.Errorf("node %s timed out after %v", ...)`
TimeoutError == [state |-> Nil, err |-> "ExecutionTimeout"]

\* Execute, to its select: the context is derived and the goroutine started.
TimeoutExecute(s) ==
    /\ UNCHANGED <<now, nonTimeoutVars>>
    /\ tn.pc = "idle"
    /\ tn' = [tn EXCEPT !.pc = "select", !.inner = "running", !.start = now,
                        !.in = s]

\* The goroutine: tn.node.Function returns and its result is sent. The
\* channel has room for it whether or not Execute still waits.
TimeoutInnerReturn ==
    /\ UNCHANGED <<now, nonTimeoutVars>>
    /\ tn.inner = "running"
    /\ LET res == ListenableFunction(tn.kind, tn.in, TimeoutCtxDone)
       IN  tn' = [tn EXCEPT !.inner = "finished", !.out = res,
                            !.resultChan = Append(@, res), !.doneAt = <<now>>]

\* Execute returns r, leaving ch in resultChan; the deferred cancel() runs.
TimeoutReturn(r, ch) ==
    tn' = [tn EXCEPT !.pc = "returned", !.ret = r, !.retAt = <<now>>,
                     !.resultChan = ch,
                     !.doneAtRet = now >= TimeoutDeadline \/ tn.parentDone,
                     !.innerAtRet = tn.inner]

\* select, `case res := <-resultChan`
TimeoutSelectResult ==
    /\ UNCHANGED <<now, nonTimeoutVars>>
    /\ tn.pc = "select"
    /\ tn.resultChan # <<>>
    /\ TimeoutReturn(TimeoutResult(Head(tn.resultChan)), Tail(tn.resultChan))

\* select, `case <-timeoutCtx.Done()`
TimeoutSelectDone ==
    /\ UNCHANGED <<now, nonTimeoutVars>>
    /\ tn.pc = "select"
    /\ TimeoutCtxDone
    /\ TimeoutReturn(TimeoutError, tn.resultChan)

\* The caller cancels the context it gave to Execute.
TimeoutParentCancel ==
    /\ UNCHANGED <<now, nonTimeoutVars>>
    /\ ~tn.parentDone
    /\ tn' = [tn EXCEPT !.parentDone = TRUE]

TimeoutTick ==
    /\ Tick
    /\ UNCHANGED <<tn, nonTimeoutVars>>

\* ------------------------------------------------------------------------
\* tracing.go: Tracer
\* ------------------------------------------------------------------------

\* The TraceEvent constants.
TraceEvents ==
    {"graph_start", "graph_end", "node_start", "node_end", "node_error",
     "edge_traversal"}

\* NewTracer: no hooks, no spans. heap holds the TraceSpan objects in the
\* order they were allocated (a *TraceSpan is an index into it); spans is
\* t.spans, from span ID to object; seen[h] is what hook h was handed, call
\* by call. The other fields belong to the one call of TracedRunnable.Invoke
\* or of the Invoke of a Runnable with this tracer set (engine says which).
NewTracer ==
    [hooks |-> 0, seen |-> <<>>, heap |-> <<>>, spans |-> <<>>, calls |-> 0,
     pc |-> "idle", currentNode |-> "", state |-> Nil, graphSpan |-> 0,
     nodeSpan |-> 0, arg |-> Nil, path |-> <<>>, engine |-> "none",
     ret |-> [state |-> Nil, err |-> "nil"]]

\* AddHook: t.hooks = append(t.hooks, hook)
AddHook(t) ==
    [t EXCEPT !.hooks = @ + 1,
              !.seen = [h \in 1..(t.hooks + 1) |->
                           IF h <= t.hooks THEN t.seen[h] ELSE <<>>]]

RECURSIVE AddHooks(_, _)
AddHooks(t, k) == IF k = 0 THEN t ELSE AddHook(AddHooks(t, k - 1))

\* No Tracer is in use.
TracerNone == tr = NewTracer

\* generateSpanID: the clock reading, formatted to the microsecond.
generateSpanID(clock) == <<"span", clock>>

\* What a hook reads from the span it is handed, at the time of the call.
SpanSeen(span) ==
    [event |-> span.event, node |-> span.nodeName, err |-> span.err]

\* The loop over t.hooks handing the span to the first hook only.
NotifyHooks_FirstOnly(t, span) ==
    [t EXCEPT !.seen = [h \in DOMAIN @ |->
                           IF h = 1 THEN Append(@[h], SpanSeen(span))
                           ELSE @[h]],
              !.calls = @ + 1]

\* `for _, hook := range t.hooks { hook.OnEvent(ctx, span) }`
NotifyHooks(t, span) ==
    [t EXCEPT !.seen = [h \in DOMAIN @ |-> Append(@[h], SpanSeen(span))],
              !.calls = @ + 1]

\* SpanFromContext(ctx).ID of the span object `parent` (0: ctx carries none)
ParentID(t, parent) == IF parent = 0 THEN <<>> ELSE t.heap[parent].id

\* Tracer.StartSpan with a context carrying the span object `parent`; the
\* span returned is the object Len(t.heap) + 1.
StartSpan(t, parent, event, nodeName, clock) ==
    LET span == [id |-> generateSpanID(clock), parentID |-> ParentID(t, parent),
                 event |-> event, nodeName |-> nodeName, fromNode |-> "",
                 toNode |-> "", startTime |-> clock, endTime |-> -1,
                 state |-> Nil, err |-> "nil"]
    IN  NotifyHooks([t EXCEPT !.heap = Append(@, span),
                              !.spans = MapPut(@, span.id, Len(t.heap) + 1)],
                    span)

\* EndSpan rewriting a failed graph span to a "graph_error" kind.
TerminalEvent_GraphError(event, e) ==
    IF e # "nil" /\ event = "node_start" THEN "node_error"
    ELSE IF e # "nil" /\ event = "graph_start" THEN "graph_error"
    ELSE IF event = "node_start" THEN "node_end"
    ELSE IF event = "graph_start" THEN "graph_end"
    ELSE event

\* "Update event type if there was an error": the if / else-if chain of
\* EndSpan.
TerminalEvent(event, e) ==
    IF e # "nil" /\ event = "node_start" THEN "node_error"
    ELSE IF event = "node_start" THEN "node_end"
    ELSE IF event = "graph_start" THEN "graph_end"
    ELSE event

\* Tracer.EndSpan on the span object i.
EndSpan(t, i, s, e, clock) ==
    LET span == [t.heap[i] EXCEPT !.endTime = clock, !.state = s, !.err = e,
                                  !.event = TerminalEvent(@, e)]
    IN  NotifyHooks([t EXCEPT !.heap[i] = span], span)

\* Tracer.TraceEdgeTraversal
TraceEdgeTraversal(t, parent, fromNode, toNode, clock) ==
    LET span == [id |-> generateSpanID(clock), parentID |-> ParentID(t, parent),
                 event |-> "edge_traversal", nodeName |-> "",
                 fromNode |-> fromNode, toNode |-> toNode,
                 startTime |-> clock, endTime |-> clock,
                 state |-> Nil, err |-> "nil"]
    IN  NotifyHooks([t EXCEPT !.heap = Append(@, span),
                              !.spans = MapPut(@, span.id, Len(t.heap) + 1)],
                    span)

\* A caller of the Tracer starts a span of any kind, outside any span.
TracerStartSpan(event, nodeName) ==
    /\ tr.calls < MaxTracerCalls
    /\ tr' = StartSpan(tr, 0, event, nodeName, now)
    /\ UNCHANGED <<now, nonTracerVars>>

\* A caller ends a span it holds, whether or not it was ended before.
TracerEndSpan(i, s, e) ==
    /\ tr.calls < MaxTracerCalls
    /\ i \in 1..Len(tr.heap)
    /\ tr' = EndSpan(tr, i, s, e, now)
    /\ UNCHANGED <<now, nonTracerVars>>

TracerTraceEdge(fromNode, toNode) ==
    /\ tr.calls < MaxTracerCalls
    /\ tr' = TraceEdgeTraversal(tr, 0, fromNode, toNode, now)
    /\ UNCHANGED <<now, nonTracerVars>>

TracerTick ==
    /\ Tick
    /\ UNCHANGED <<tr, nonTracerVars>>

\* ------------------------------------------------------------------------
\* tracing.go: TracedRunnable.Invoke
\* ------------------------------------------------------------------------

\* `tr.tracer.EndSpan(ctx, graphSpan, state, finalError)` followed by the
\* return of (ret, finalError).
TracedReturn(t, s, e, ret) ==
    [EndSpan(t, t.graphSpan, s, e, now) EXCEPT
        !.pc = "done", !.ret = [state |-> ret, err |-> e]]

\* The call: the graph span is started, the locals are set.
TracedInvoke(s) ==
    /\ tr.pc = "idle"
    /\ compiled = "ok"
    /\ tr' = [StartSpan(tr, 0, "graph_start", "", now) EXCEPT
                 !.pc = "loop", !.state = s, !.arg = s,
                 !.engine = "TracedRunnable",
                 !.currentNode = entryPoint,
                 !.graphSpan = Len(tr.heap) + 1]
    /\ UNCHANGED <<now, nonTracerVars>>

\* Top of the loop: the END test, the node lookup, the node span.
TracedLoop ==
    /\ tr.pc = "loop"
    /\ tr' = IF tr.currentNode = END
             THEN TracedReturn(tr, tr.state, "nil", tr.state)
             ELSE IF tr.currentNode \notin DOMAIN nodes
             THEN TracedReturn(tr, tr.state, "ErrNodeNotFound", Nil)
             ELSE [StartSpan(tr, tr.graphSpan, "node_start", tr.currentNode,
                             now)
                      EXCEPT !.pc = "node", !.nodeSpan = Len(tr.heap) + 1]
    /\ UNCHANGED <<now, nonTracerVars>>

\* node.Function returns: the node span is ended, then the run fails or
\* follows the first static edge from the node.
TracedNodeReturn ==
    /\ tr.pc = "node"
    /\ LET out == NodeFunction(nodes[tr.currentNode], tr.state)
           ended == EndSpan([tr EXCEPT !.state = out.state,
                                       !.path = Append(@, tr.currentNode)],
                            tr.nodeSpan, out.state, out.err, now)
           e == FirstEdgeFrom(edges, 1, tr.currentNode)
       IN  tr' = IF out.err # "nil"
                 THEN TracedReturn(ended, out.state, out.err, Nil)
                 ELSE IF e.found
                 THEN [TraceEdgeTraversal(ended, tr.graphSpan, tr.currentNode,
                                          e.to, now)
                          EXCEPT !.currentNode = e.to, !.pc = "loop"]
                 ELSE TracedReturn(ended, out.state, "ErrNoOutgoingEdge", Nil)
    /\ UNCHANGED <<now, nonTracerVars>>

\* ------------------------------------------------------------------------
\* graph.go: Runnable.Invoke with a tracer set (SetTracer, WithTracer)
\* ------------------------------------------------------------------------

\* The error Invoke returns, by its sentinel or, for a node's error, by the
\* error it wraps.
ErrString(e) ==
    IF e = NoErr THEN "nil"
    ELSE IF e.kind = "NodeExecutionError" THEN e.cause
    ELSE e.kind

\* `return nil, fmt.Errorf(...)`: no span is ended on the way out.
SetTracerFail(t, e) ==
    [t EXCEPT !.pc = "done", !.ret = [state |-> Nil, err |-> ErrString(e)]]

\* Invoke up to its loop: the graph span is started (named "graph", with no
\* span in the context) and given the initial state.
SetTracerInvoke(s) ==
    /\ tr.pc = "idle"
    /\ compiled = "ok"
    /\ LET started == StartSpan(tr, 0, "graph_start", "graph", now)
           g == Len(tr.heap) + 1
       IN  tr' = [started EXCEPT
                     !.heap[g].state = s,
                     !.pc = "rloop", !.state = s, !.arg = s,
                     !.engine = "Runnable", !.currentNode = entryPoint,
                     !.graphSpan = g]
    /\ UNCHANGED <<now, nonTracerVars>>

\* Top of the loop: at END the graph span is ended and the state returned;
\* a missing node returns the error; otherwise the node span is started.
SetTracerLoop ==
    /\ tr.pc = "rloop"
    /\ LET n == Len(tr.heap) + 1
       IN  tr' =
             IF tr.currentNode = END
             THEN [EndSpan(tr, tr.graphSpan, tr.state, "nil", now) EXCEPT
                      !.pc = "done",
                      !.ret = [state |-> tr.state, err |-> "nil"]]
             ELSE IF tr.currentNode \notin DOMAIN nodes
             THEN SetTracerFail(tr, MkErr("NodeNotFound", tr.currentNode, ""))
             ELSE [StartSpan(tr, 0, "node_start", tr.currentNode, now) EXCEPT
                      !.heap[n].state = tr.state,
                      !.pc = "rnode", !.nodeSpan = n]
    /\ UNCHANGED <<now, nonTracerVars>>

\* "End node tracing" with an error: the node span is ended, then a second
\* span of kind node_error is started and ended at once.
SetTracerNodeFailed(t, s, e) ==
    LET ended == EndSpan(t, t.nodeSpan, s, e, now)
        errorSpan == Len(ended.heap) + 1
        started == StartSpan(ended, 0, "node_error", t.currentNode, now)
    IN  EndSpan([started EXCEPT !.heap[errorSpan].err = e,
                                !.heap[errorSpan].state = s],
                errorSpan, s, e, now)

\* "Trace edge traversal": a span for the edge unless it leads to END.
SetTracerEdge(t, s, nextNode) ==
    IF nextNode # "" /\ nextNode # END
    THEN LET edgeSpan == Len(t.heap) + 1
             started == StartSpan(t, 0, "edge_traversal",
                                  <<t.currentNode, "->", nextNode>>, now)
         IN  EndSpan([started EXCEPT
                         !.heap[edgeSpan].fromNode = t.currentNode,
                         !.heap[edgeSpan].toNode = nextNode],
                     edgeSpan, s, "nil", now)
    ELSE t

\* node.Function returns; the rest of the iteration.
SetTracerNodeReturn ==
    /\ tr.pc = "rnode"
    /\ LET out == NodeFunction(nodes[tr.currentNode], tr.state)
           ran == [tr EXCEPT !.state = out.state,
                             !.path = Append(@, tr.currentNode)]
           nxt == ResolveNext(tr.currentNode, out.state)
       IN  tr' =
             IF out.err # "nil"
             THEN SetTracerFail(SetTracerNodeFailed(ran, out.state, out.err),
                                NodeError(tr.currentNode, out).err)
             ELSE LET ended == EndSpan(ran, tr.nodeSpan, out.state, "nil", now)
                  IN  IF nxt.err # NoErr THEN SetTracerFail(ended, nxt.err)
                      ELSE [SetTracerEdge(ended, out.state, nxt.next) EXCEPT
                               !.currentNode = nxt.next, !.pc = "rloop"]
    /\ UNCHANGED <<now, nonTracerVars>>

\* ------------------------------------------------------------------------
\* parallel.go: ParallelNode
\* ------------------------------------------------------------------------

\* Sub-functions of a ParallelNode: the node functions, and one that panics
\* with a non-nil value.
ParallelKinds == NodeKinds \cup {"panic"}

\* NewParallelNode(name, nodes...): one sub-function kind per position.
\* worker[i] is the goroutine of sub-function i: "none" before Execute,
\* "ready" once started, "called" inside n.Function, "sent" once its result
\* is in the channel, "done" after wg.Done.
NewParallelNode(kinds) ==
    [kinds |-> kinds, pc |-> "idle", in |-> Nil,
     worker |-> [i \in 1..Len(kinds) |-> "none"],
     calls |-> [i \in 1..Len(kinds) |-> 0],
     results |-> <<>>, closed |-> FALSE,
     outputs |-> <<>>, firstError |-> "nil",
     ret |-> [results |-> Nil, err |-> "nil"], pendingAtRet |-> {}]

\* No ParallelNode is in use.
ParallelNone == pn = NewParallelNode(<<>>)

\* What the goroutine of sub-function idx sends: the function's value and
\* error, or, from the deferred recover, no value and the panic's error.
ParallelSend(idx, kind, s) ==
    IF kind = "panic"
    THEN [index |-> idx, value |-> Nil, err |-> "panic"]
    ELSE [index |-> idx, value |-> NodeFunction(kind, s).state,
          err |-> NodeFunction(kind, s).err]

\* Execute returning what it collected together with the error.
ParallelResult_Partial(outputs, firstError) ==
    IF firstError # "nil"
    THEN [results |-> outputs,
          err |-> <<"parallel execution failed", firstError>>]
    ELSE [results |-> outputs, err |-> "nil"]

\* `if firstError != nil { return nil, fmt.Errorf("parallel execution
\* failed: %w", firstError) }; return outputs, nil`
ParallelResult(outputs, firstError) ==
    IF firstError # "nil"
    THEN [results |-> Nil,
          err |-> <<"parallel execution failed", firstError>>]
    ELSE [results |-> outputs, err |-> "nil"]

\* Execute up to its range loop: the channel is made, one goroutine per
\* sub-function and the goroutine that closes the channel are started,
\* outputs is allocated.
ParallelExecute(s) ==
    /\ pn.pc = "idle"
    /\ pn' = [pn EXCEPT !.pc = "collect", !.in = s,
                        !.worker = [i \in DOMAIN @ |-> "ready"],
                        !.outputs = [i \in 1..Len(pn.kinds) |-> Nil]]
    /\ UNCHANGED nonParallelVars

\* Goroutine i calls n.Function(ctx, state).
ParallelCall(i) ==
    /\ i \in DOMAIN pn.worker
    /\ pn.worker[i] = "ready"
    /\ pn' = [pn EXCEPT !.worker[i] = "called", !.calls[i] = @ + 1]
    /\ UNCHANGED nonParallelVars

\* n.Function returns or panics and goroutine i sends its result: the
\* channel has room for one result per sub-function.
ParallelFunctionReturn(i) ==
    /\ i \in DOMAIN pn.worker
    /\ pn.worker[i] = "called"
    /\ pn' = [pn EXCEPT !.worker[i] = "sent",
                        !.results = Append(@, ParallelSend(i, pn.kinds[i],
                                                           pn.in))]
    /\ UNCHANGED nonParallelVars

\* The deferred wg.Done of goroutine i.
ParallelWorkerDone(i) ==
    /\ i \in DOMAIN pn.worker
    /\ pn.worker[i] = "sent"
    /\ pn' = [pn EXCEPT !.worker[i] = "done"]
    /\ UNCHANGED nonParallelVars

\* `wg.Wait(); close(results)`
ParallelClose ==
    /\ pn.pc # "idle"
    /\ ~pn.closed
    /\ \A i \in DOMAIN pn.worker : pn.worker[i] = "done"
    /\ pn' = [pn EXCEPT !.closed = TRUE]
    /\ UNCHANGED nonParallelVars

\* One iteration of `for res := range results`.
ParallelCollect ==
    /\ pn.pc = "collect"
    /\ pn.results # <<>>
    /\ LET res == Head(pn.results)
       IN  pn' = [pn EXCEPT !.results = Tail(@),
                            !.firstError =
                                IF res.err # "nil" /\ @ = "nil" THEN res.err
                                ELSE @,
                            !.outputs[res.index] = res.value]
    /\ UNCHANGED nonParallelVars

\* The range loop ends on the closed, drained channel and Execute returns.
ParallelReturn ==
    /\ pn.pc = "collect"
    /\ pn.results = <<>>
    /\ pn.closed
    /\ pn' = [pn EXCEPT !.pc = "done",
                        !.ret = ParallelResult(pn.outputs, pn.firstError),
                        !.pendingAtRet =
                            {i \in DOMAIN pn.worker :
                                pn.worker[i] \in {"ready", "called"}}]
    /\ UNCHANGED nonParallelVars

\* ------------------------------------------------------------------------
\* listeners.go: ListenableRunnable.Invoke on any MessageGraph
\* ------------------------------------------------------------------------

\* The call has not been made.
EngineIdle ==
    [pc |-> "idle", arg |-> Nil, currentNode |-> "", state |-> Nil,
     path |-> <<>>, ret |-> [state |-> Nil, err |-> "nil"]]

EngineNone == lgRun = EngineIdle

\* `state := initialState; currentNode := lr.graph.entryPoint`.
\* NewListenableRunnable wraps every node of the graph, so
\* lr.listenableNodes has the names of nodes.
EngineInvoke(s) ==
    /\ lgRun.pc = "idle"
    /\ compiled = "ok"
    /\ lgRun' = [lgRun EXCEPT !.pc = "loop", !.arg = s, !.state = s,
                        !.currentNode = entryPoint]
    /\ UNCHANGED nonEngineVars

\* One iteration of the loop: the END test, the lookup, the node's Execute
\* (which returns what the node function returns), the first static edge.
EngineStep ==
    /\ lgRun.pc = "loop"
    /\ lgRun' =
         IF lgRun.currentNode = END
         THEN [lgRun EXCEPT !.pc = "done",
                         !.ret = [state |-> lgRun.state, err |-> "nil"]]
         ELSE IF lgRun.currentNode \notin DOMAIN nodes
         THEN [lgRun EXCEPT !.pc = "done",
                         !.ret = [state |-> Nil, err |-> "ErrNodeNotFound"]]
         ELSE LET out == NodeFunction(nodes[lgRun.currentNode], lgRun.state)
                  e == FirstEdgeFrom(edges, 1, lgRun.currentNode)
                  ran == [lgRun EXCEPT !.state = out.state,
                                    !.path = Append(@, lgRun.currentNode)]
              IN  IF out.err # "nil"
                  THEN [ran EXCEPT !.pc = "done",
                                   !.ret = [state |-> Nil, err |-> out.err]]
                  ELSE IF e.found
                  THEN [ran EXCEPT !.currentNode = e.to]
                  ELSE [ran EXCEPT !.pc = "done",
                                   !.ret = [state |-> Nil,
                                            err |-> "ErrNoOutgoingEdge"]]
    /\ UNCHANGED nonEngineVars

\* ------------------------------------------------------------------------
\* Stream and CheckpointableRunnable.Invoke overlapping on one runnable
\* ------------------------------------------------------------------------

\* The calls that overlap: each is a Stream or a CheckpointableRunnable.Invoke.
OverlapRuns == {1, 2}

\* The node functions of the chain the runs execute, first node first.
OverlapChains == {<<"inc">>, <<"fail">>, <<"inc", "inc">>}

\* A listener a caller registered on every node before the runs.
UserListener == [kind |-> "user", id |-> 0]

NoRun ==
    [kind |-> "none", pc |-> "idle", attached |-> {}, node |-> 0,
     failed |-> FALSE, slClosed |-> FALSE, chClosed |-> FALSE]

\* obs[i]: ln.listeners of node i of the chain. run[r]: call r, its listener
\* (slClosed: StreamingListener.closed) and its event channel (chClosed).
\* disp: the goroutines of NotifyListeners inside OnNodeEvent of a
\* StreamingListener, [by, to, pc]: started by run `by`, for the listener
\* of run `to`. closedSends: the sends made on a closed event channel.
\* overlapped: a call was made while another was under way. ckpts: the
\* checkpoints the CheckpointListeners built and handed to their save
\* goroutines, each with the call whose listener built it (of) and the call
\* that executed the node (by).
NewOverlap(chain, registered) ==
    [chain |-> chain, obs |-> [i \in 1..Len(chain) |-> registered],
     before |-> registered, run |-> [r \in OverlapRuns |-> NoRun],
     disp |-> {}, closedSends |-> {}, overlapped |-> FALSE, ckpts |-> {}]

\* No such runs are modelled.
OverlapNone == ov = NewOverlap(<<>>, <<>>)

\* One listener object of each kind for all the calls made on a runnable.
ListenerOf_Shared(kind, r) == [kind |-> kind, id |-> 1]

\* `streamingListener := NewStreamingListener(...)` and `checkpointListener
\* := &CheckpointListener{...}`: every call makes its own listener object.
ListenerOf(kind, r) == [kind |-> kind, id |-> r]

\* Stream, or CheckpointableRunnable.Invoke, is called.
OverlapCall(r, kind) ==
    /\ ov.run[r].pc = "idle"
    /\ ov' = [ov EXCEPT !.run[r] = [NoRun EXCEPT !.kind = kind,
                                                 !.pc = "attach"],
                        !.overlapped =
                            @ \/ \E q \in OverlapRuns \ {r} :
                                    ov.run[q].pc \notin
                                        {"idle", "closed", "returned"}]
    /\ UNCHANGED nonOverlapVars

\* One iteration of `for _, node := range listenableNodes
\* { node.AddListener(l) }`, the map being ranged over in any order.
OverlapAttach(r, i) ==
    /\ ov.run[r].pc = "attach"
    /\ i \in DOMAIN ov.obs
    /\ i \notin ov.run[r].attached
    /\ LET all == ov.run[r].attached \cup {i} = DOMAIN ov.obs
       IN  ov' = [ov EXCEPT
                     !.obs[i] = Append(@, ListenerOf(ov.run[r].kind, r)),
                     !.run[r].attached = @ \cup {i},
                     !.run[r].pc = IF all THEN "start" ELSE "attach",
                     !.run[r].node = IF all THEN 1 ELSE 0]
    /\ UNCHANGED nonOverlapVars

\* NotifyListeners of run r on its current node: the goroutines it starts,
\* one per listener of the copy it took. Those of listeners that are not
\* StreamingListeners touch no channel and are left out.
Dispatches(r) ==
    {[by |-> r, to |-> l.id, pc |-> "check"] :
        l \in {ov.obs[ov.run[r].node][k] :
                  k \in 1..Len(ov.obs[ov.run[r].node])} \cap
              {[kind |-> "stream", id |-> q] : q \in OverlapRuns \cup {0}}}

\* CheckpointListener.OnNodeEvent of every CheckpointListener on the node run
\* r has completed without error, AutoSave being on: the checkpoint carries
\* the executionID the listener was given by CheckpointableRunnable.Invoke,
\* that of the runnable both calls are made on.
OverlapCheckpoints(r) ==
    {[of |-> l.id, by |-> r, nodeName |-> ov.run[r].node,
      execution_id |-> executionID] :
        l \in {ov.obs[ov.run[r].node][k] :
                  k \in 1..Len(ov.obs[ov.run[r].node])} \cap
              {[kind |-> "ckpt", id |-> q] : q \in OverlapRuns}}

\* wg.Wait() of NotifyListeners has returned for run r.
NotifyDone(r) == \A d \in ov.disp : d.by # r

\* ListenableNode.Execute: NotifyListeners(start)
OverlapNotifyStart(r) ==
    /\ ov.run[r].pc = "start"
    /\ ov' = [ov EXCEPT !.disp = @ \cup Dispatches(r),
                        !.run[r].pc = "function"]
    /\ UNCHANGED nonOverlapVars

\* The node function returns and NotifyListeners(complete or error) starts.
OverlapNotifyEnd(r) ==
    /\ ov.run[r].pc = "function"
    /\ NotifyDone(r)
    /\ ov' = [ov EXCEPT
                 !.disp = @ \cup Dispatches(r),
                 !.ckpts = IF ov.chain[ov.run[r].node] = "fail" THEN @
                           ELSE @ \cup OverlapCheckpoints(r),
                 !.run[r].pc = "executed",
                 !.run[r].failed = ov.chain[ov.run[r].node] = "fail"]
    /\ UNCHANGED nonOverlapVars

\* Execute returns to ListenableRunnable.Invoke, which goes on to the next
\* node or returns; a Stream then closes its listener first of all.
OverlapNext(r) ==
    /\ ov.run[r].pc = "executed"
    /\ NotifyDone(r)
    /\ ov' = IF ~ov.run[r].failed /\ ov.run[r].node < Len(ov.chain)
             THEN [ov EXCEPT !.run[r].node = @ + 1, !.run[r].pc = "start"]
             ELSE [ov EXCEPT !.run[r].pc = "detach",
                             !.run[r].slClosed = ov.run[r].kind = "stream"]
    /\ UNCHANGED nonOverlapVars

\* One iteration of `for _, node := range listenableNodes
\* { node.RemoveListener(l) }`; after the last one Invoke of the
\* CheckpointableRunnable returns, and the goroutine of Stream sleeps.
OverlapDetach(r, i) ==
    /\ ov.run[r].pc = "detach"
    /\ i \in ov.run[r].attached
    /\ LET last == ov.run[r].attached = {i}
       IN  ov' = [ov EXCEPT
                     !.obs[i] = RemoveFirst(@, ListenerOf(ov.run[r].kind, r)),
                     !.run[r].attached = @ \ {i},
                     !.run[r].pc =
                         IF ~last THEN "detach"
                         ELSE IF ov.run[r].kind = "stream" THEN "sleep"
                         ELSE "returned"]
    /\ UNCHANGED nonOverlapVars

\* The 10 ms are over: close(eventChan) and the other three channels.
OverlapCloseChannels(r) ==
    /\ ov.run[r].pc = "sleep"
    /\ ov' = [ov EXCEPT !.run[r].pc = "closed", !.run[r].chClosed = TRUE]
    /\ UNCHANGED nonOverlapVars

\* StreamingListener.OnNodeEvent: the test of sl.closed under the read lock.
OverlapCheckClosed(d) ==
    /\ d \in ov.disp
    /\ d.pc = "check"
    /\ ov' = [ov EXCEPT !.disp =
                 IF ov.run[d.to].slClosed THEN @ \ {d}
                 ELSE (@ \ {d}) \cup {[d EXCEPT !.pc = "send"]}]
    /\ UNCHANGED nonOverlapVars

\* StreamingListener.OnNodeEvent: the select with `sl.eventChan <- event`.
\* On a closed channel the send panics; NotifyListeners recovers.
OverlapSend(d) ==
    /\ d \in ov.disp
    /\ d.pc = "send"
    /\ ov' = [ov EXCEPT !.disp = @ \ {d},
                        !.closedSends =
                            IF ov.run[d.to].chClosed
                            THEN @ \cup {[by |-> d.by, to |-> d.to]}
                            ELSE @]
    /\ UNCHANGED nonOverlapVars

\* None of the components of this section and after is in use.
LateNone == ParallelNone /\ EngineNone /\ OverlapNone

\* ------------------------------------------------------------------------
\* graph.go: Runnable.Invoke called from several goroutines
\* ------------------------------------------------------------------------

Callers == 1..MaxCallers

\* The compiled graphs the concurrent callers share.
ConcGraphs ==
    { [nodes |-> [n \in {"A", "B"} |-> "inc"],
       edges |-> <<[from |-> "A", to |-> "B"], [from |-> "B", to |-> END]>>,
       conditionalEdges |-> <<>>, entryPoint |-> "A"],
      [nodes |-> [n \in {"A"} |-> "inc"],
       edges |-> <<>>,
       conditionalEdges |-> [n \in {"A"} |-> [kind |-> "until", to |-> "A"]],
       entryPoint |-> "A"],
      [nodes |-> [n \in {"A", "B"} |-> IF n = "A" THEN "inc" ELSE "fail"],
       edges |-> <<[from |-> "A", to |-> "B"], [from |-> "B", to |-> END]>>,
       conditionalEdges |-> <<>>, entryPoint |-> "A"],
      [nodes |-> [n \in {"A"} |-> "inc"],
       edges |-> <<[from |-> "A", to |-> "B"]>>,
       conditionalEdges |-> <<>>, entryPoint |-> "A"] }

NoFrame == [currentNode |-> "", state |-> Nil]

NoCall ==
    [pc |-> "idle", arg |-> Nil, path |-> <<>>,
     ret |-> [state |-> Nil, err |-> NoErr], overlap |-> FALSE]

ConcNone ==
    /\ ccFrames = [c \in Callers |-> NoFrame]
    /\ ccCalls = [c \in Callers |-> NoCall]
    /\ rcRL = [c \in Callers |-> [pc |-> "idle", now |-> 0]]
    /\ rcCB = [c \in Callers |-> [pc |-> "idle", tmp |-> 0]]
    /\ rcOverlap = [rl |-> FALSE, cb |-> FALSE]

\* No TimeoutNode is in use.
TimeoutNone == tn = NewTimeoutNode("inc", 0)

\* No Save has failed.
SaveErrorsNone == ckErrs = [failed |-> 0, reported |-> 0]

\* None of the components above is in use.
ExtNone ==
    /\ ConcNone /\ TimeoutNone /\ SaveErrorsNone /\ TracerNone /\ StoreNone
    /\ LateNone

\* One frame of locals for every call of Invoke.
FrameOf_Shared(c) == 1

\* `state := initialState` and `currentNode := r.graph.entryPoint` are locals
\* of InvokeWithConfig: the call of caller c keeps them in its own frame.
FrameOf(c) == c

\* One iteration of Invoke's for loop at cursor cur with state s:
\* [done, ret, exec, next, state].
InvokeIteration(cur, s) ==
    IF cur = END
    THEN [done |-> TRUE, ret |-> ReturnAtEnd(s), exec |-> <<>>,
          next |-> cur, state |-> s]
    ELSE IF cur \notin DOMAIN nodes
    THEN [done |-> TRUE,
          ret |-> [state |-> Nil, err |-> MkErr("NodeNotFound", cur, "")],
          exec |-> <<>>, next |-> cur, state |-> s]
    ELSE LET out == NodeFunction(nodes[cur], s)
             nxt == ResolveNext(cur, out.state)
         IN  IF out.err # "nil"
             THEN [done |-> TRUE, ret |-> NodeError(cur, out), exec |-> <<cur>>,
                   next |-> cur, state |-> out.state]
             ELSE IF nxt.err # NoErr
             THEN [done |-> TRUE, ret |-> [state |-> Nil, err |-> nxt.err],
                   exec |-> <<cur>>, next |-> cur, state |-> out.state]
             ELSE [done |-> FALSE, ret |-> [state |-> Nil, err |-> NoErr],
                   exec |-> <<cur>>, next |-> nxt.next, state |-> out.state]

\* Another caller's Invoke is under way.
OthersRunning(c) == \E d \in Callers \ {c} : ccCalls[d].pc = "running"

\* Caller c calls Invoke(ctx, s).
ConcInvoke(c, s) ==
    /\ UNCHANGED nonConcVars
    /\ compiled = "ok"
    /\ ccCalls[c].pc = "idle"
    /\ ccFrames' = [ccFrames EXCEPT ![FrameOf(c)] =
                       [currentNode |-> entryPoint, state |-> s]]
    /\ ccCalls' = [ccCalls EXCEPT ![c] =
                      [NoCall EXCEPT !.pc = "running", !.arg = s]]

\* Caller c's Invoke makes one iteration of its loop.
ConcInvokeStep(c) ==
    /\ UNCHANGED nonConcVars
    /\ ccCalls[c].pc = "running"
    /\ LET f == ccFrames[FrameOf(c)]
           it == InvokeIteration(f.currentNode, f.state)
       IN  /\ ccFrames' = [ccFrames EXCEPT ![FrameOf(c)] =
                              [currentNode |-> it.next, state |-> it.state]]
           /\ ccCalls' = [ccCalls EXCEPT ![c] =
                 [pc |-> IF ~it.done THEN "running"
                         ELSE IF it.ret.err = NoErr THEN "done" ELSE "failed",
                  arg |-> @.arg,
                  path |-> @.path \o it.exec,
                  ret |-> it.ret,
                  overlap |-> @.overlap \/ OthersRunning(c)]]

\* ------------------------------------------------------------------------
\* retry.go: RateLimiter.Execute and CircuitBreaker.Execute called from
\* several goroutines. Neither type holds a lock: each step below is one
\* stretch of Execute between two accesses of the shared fields, and the
\* steps of different callers interleave.
\* ------------------------------------------------------------------------

\* The limiters and breakers the concurrent callers share.
RaceRLConfigs == {[maxCalls |-> 1, window |-> 2], [maxCalls |-> 2, window |-> 1]}

RaceCBConfigs ==
    {[failureThreshold |-> f, successThreshold |-> 1, timeout |-> 1,
      halfOpenMaxCalls |-> 1] : f \in {1, 2}}

\* Two goroutines share the limiter and the breaker.
RaceCallers == {1, 2}

\* Every caller runs a rate-limited node and then a node behind the breaker:
\* one call of each Execute, in that order; its pc ends at "done".
RLBusy(c) == \E d \in RaceCallers \ {c} : rcRL[d].pc \notin {"idle", "done"}

CBBusy(c) == \E d \in RaceCallers \ {c} : rcCB[d].pc \notin {"idle", "done"}

rlShared == <<rlCfg, rlPc, rlRet>>

cbShared ==
    <<cbCfg, cbPc, cbRet, cbCalls, cbExecIn, cbProbeStreak, cbLastFailAt,
      cbOpenedAt>>

\* RateLimiter.Execute, caller c: now := time.Now(), the filter loop and
\* rl.calls = validCalls.
RaceRLFilter(c) ==
    /\ UNCHANGED <<nonRaceVars, now, cbVars, rlShared, rcCB>>
    /\ rcRL[c].pc = "idle"
    /\ rlCalls' = rlCalls + 1
    /\ calls' = RLValidCalls(now)
    /\ rcRL' = [rcRL EXCEPT ![c] = [pc |-> "filtered", now |-> now]]
    /\ rcOverlap' = [rcOverlap EXCEPT !.rl = @ \/ RLBusy(c)]
    /\ UNCHANGED <<rlCallCount, rlExecTimes>>

\* `if len(rl.calls) >= rl.maxCalls`: the call is rejected or goes on.
RaceRLCheck(c) ==
    /\ UNCHANGED <<nonRaceVars, now, cbVars, rlVars, rcCB, rcOverlap>>
    /\ rcRL[c].pc = "filtered"
    /\ Len(calls) > 0 \/ ~RLAtLimit(calls)
    /\ rcRL' = [rcRL EXCEPT ![c].pc = IF RLAtLimit(calls) THEN "done" ELSE "admitted"]

\* rl.calls = append(rl.calls, now) and the call of the wrapped function.
RaceRLRecord(c) ==
    /\ UNCHANGED <<nonRaceVars, now, cbVars, rlShared, rlCalls, rcCB, rcOverlap>>
    /\ rcRL[c].pc = "admitted"
    /\ calls' = Append(calls, rcRL[c].now)
    /\ rlCallCount' = rlCallCount + 1
    /\ rlExecTimes' = Append(rlExecTimes, rcRL[c].now)
    /\ rcRL' = [rcRL EXCEPT ![c].pc = "done"]

\* CircuitBreaker.Execute, caller c: the switch on cb.state.
RaceCBEnter(c) ==
    /\ UNCHANGED <<nonRaceVars, now, rlVars, rcRL>>
    /\ UNCHANGED <<cbCfg, cbPc, cbRet, cbExecIn, cbProbeStreak, cbLastFailAt,
                   cbOpenedAt, failures, successes, lastFailureTime,
                   cbConsecFail>>
    /\ rcCB[c].pc = "idle"
    /\ rcRL[c].pc = "done"
    /\ cbCalls' = cbCalls + 1
    /\ rcOverlap' = [rcOverlap EXCEPT !.cb = @ \/ CBBusy(c)]
    /\ LET proceed == /\ rcCB' = [rcCB EXCEPT ![c].pc = "inner"]
                      /\ cbCallCount' = cbCallCount + 1
           reject  == /\ rcCB' = [rcCB EXCEPT ![c].pc = "done"]
                      /\ UNCHANGED <<cbCallCount, cbPeriodExecs>>
       IN  CASE cbState = "Closed" ->
                  /\ proceed
                  /\ UNCHANGED <<cbState, halfOpenCalls, cbPeriodExecs>>
             [] cbState = "Open" ->
                  IF CBTimeoutElapsed
                  THEN /\ cbState' = "HalfOpen"
                       /\ halfOpenCalls' = 0
                       /\ cbPeriodExecs' = 1
                       /\ proceed
                  ELSE /\ reject
                       /\ UNCHANGED <<cbState, halfOpenCalls>>
             [] cbState = "HalfOpen" ->
                  IF CBHalfOpenLimitReached
                  THEN /\ cbState' = "Open"
                       /\ reject
                       /\ UNCHANGED halfOpenCalls
                  ELSE /\ halfOpenCalls' = halfOpenCalls + 1
                       /\ cbPeriodExecs' = cbPeriodExecs + 1
                       /\ proceed
                       /\ UNCHANGED cbState

\* The wrapped function returns to caller c, which reads the counter it is
\* about to increment: cb.failures after an error, cb.successes otherwise.
RaceCBInnerReturn(c, ok) ==
    /\ UNCHANGED <<nonRaceVars, now, rlVars, cbVars, rcRL, rcOverlap>>
    /\ rcCB[c].pc = "inner"
    /\ rcCB' = [rcCB EXCEPT ![c] =
                   [pc |-> IF ok THEN "success" ELSE "failure",
                    tmp |-> IF ok THEN successes ELSE failures]]

\* Caller c writes the incremented counter back and finishes Execute.
RaceCBUpdate(c) ==
    /\ UNCHANGED <<nonRaceVars, now, rlVars, rcRL, rcOverlap>>
    /\ UNCHANGED <<cbCfg, cbPc, cbRet, cbCalls, cbExecIn, cbProbeStreak,
                   cbLastFailAt, cbOpenedAt, halfOpenCalls, cbCallCount,
                   cbPeriodExecs>>
    /\ rcCB[c].pc \in {"success", "failure"}
    /\ rcCB' = [rcCB EXCEPT ![c].pc = "done"]
    /\ IF rcCB[c].pc = "failure"
       THEN /\ failures' = rcCB[c].tmp + 1
            /\ successes' = 0
            /\ lastFailureTime' = now
            /\ cbState' = IF CBShouldOpen(rcCB[c].tmp + 1) THEN "Open" ELSE cbState
            /\ cbConsecFail' = cbConsecFail + 1
       ELSE /\ successes' = rcCB[c].tmp + 1
            /\ failures' = 0
            /\ cbState' = IF CBShouldClose(cbState, rcCB[c].tmp + 1)
                          THEN "Closed" ELSE cbState
            /\ cbConsecFail' = 0
            /\ UNCHANGED lastFailureTime

RaceTick ==
    /\ Tick
    /\ UNCHANGED <<nonRaceVars, cbVars, rlVars, raceVars>>

\* ------------------------------------------------------------------------
\* Specifications
\* ------------------------------------------------------------------------

\* No listenable graph, stream or checkpoint store is in use, and no
\* concurrent caller.
ListenNone ==
    /\ ExtNone
    /\ CompileListenable(<<>>)
    /\ NewStreamingRunnable(StreamNoConfig)
    /\ NoConsumer
    /\ NewCheckpointableRunnable(FALSE)

InitGraph ==
    /\ ListenNone
    /\ NewMessageGraph
    /\ InvokeIdle
    /\ now = 0
    /\ NewCircuitBreaker(CBNoConfig)
    /\ NewRetryNode(RetryNoConfig, <<>>)
    /\ NewRateLimiter(RLNoConfig)

NextGraph ==
    \/ \E m \in NodeMenu : AddNode(m[1], m[2])
    \/ \E f \in EdgeSources, t \in NodeNames : AddEdge(f, t)
    \/ \E f \in CondSources, fn \in CondFns : AddConditionalEdge(f, fn)
    \/ \E n \in NodeNames : SetEntryPoint(n)
    \/ Compile
    \/ \E s \in InitialStates : Invoke(s)
    \/ InvokeStep

SpecGraph == InitGraph /\ [][NextGraph]_vars

\* A started Invoke keeps running: its loop is never suspended for good.
FairSpecGraph == SpecGraph /\ WF_vars(InvokeStep)

InitCB ==
    /\ ListenNone
    /\ NewMessageGraph
    /\ InvokeIdle
    /\ now = 0
    /\ \E config \in CBConfigs : NewCircuitBreaker(config)
    /\ NewRetryNode(RetryNoConfig, <<>>)
    /\ NewRateLimiter(RLNoConfig)

NextCB ==
    \/ CBEnter
    \/ \E ok \in BOOLEAN : CBInnerReturn(ok)
    \/ CBTick

\* CircuitBreaker.Execute called again and again, one call at a time.
SpecCB == InitCB /\ [][NextCB]_vars

InitRetry ==
    /\ ListenNone
    /\ NewMessageGraph
    /\ InvokeIdle
    /\ now = 0
    /\ NewCircuitBreaker(CBNoConfig)
    /\ \E config \in RetryConfigs, script \in RetryScripts :
          NewRetryNode(config, script)
    /\ NewRateLimiter(RLNoConfig)

NextRetry ==
    \/ RetryStart
    \/ RetryWake
    \/ RetryCancelledDuringBackoff
    \/ CancelContext

\* One call of RetryNode.Execute.
SpecRetry == InitRetry /\ [][NextRetry]_vars

InitRL ==
    /\ ListenNone
    /\ NewMessageGraph
    /\ InvokeIdle
    /\ now = 0
    /\ NewCircuitBreaker(CBNoConfig)
    /\ NewRetryNode(RetryNoConfig, <<>>)
    /\ \E config \in RLConfigs : NewRateLimiter(config)

NextRL ==
    \/ RLEnter
    \/ \E ok \in BOOLEAN : RLInnerReturn(ok)
    \/ RLTick

\* RateLimiter.Execute called again and again, one call at a time.
SpecRL == InitRL /\ [][NextRL]_vars

\* No MessageGraph, wrapper or clock is in use.
WrappersNone ==
    /\ ExtNone
    /\ NewMessageGraph
    /\ InvokeIdle
    /\ now = 0
    /\ NewCircuitBreaker(CBNoConfig)
    /\ NewRetryNode(RetryNoConfig, <<>>)
    /\ NewRateLimiter(RLNoConfig)

\* The steps of ListenableRunnable.Invoke and of the goroutines it starts.
NextInvoke ==
    \/ ListenableInvokeStep
    \/ \E i \in 1..Len(lnTasks) : ListenerBegin(i)
    \/ \E i \in 1..Len(lnTasks) : ListenerEnd(i)
    \/ ListenableCallFunction
    \/ ListenableFunctionReturn
    \/ ListenableExecuteReturn

InitListen ==
    /\ WrappersNone
    /\ \E kind \in NodeKinds : CompileListenable(<<kind>>)
    /\ NewStreamingRunnable(StreamNoConfig)
    /\ NoConsumer
    /\ NewCheckpointableRunnable(FALSE)

NextListen ==
    \/ \E l \in ListenerPool : AddListener(l)
    \/ \E l \in ListenerPool : RemoveListener(l)
    \/ \E s \in ListenInputs : PlainInvoke(s)
    \/ NextInvoke

\* One ListenableRunnable.Invoke over a one-node graph, observers being
\* added and removed by the caller meanwhile.
SpecListen == InitListen /\ [][NextListen]_vars

InitStream ==
    /\ WrappersNone
    /\ \E chain \in Chains : CompileListenable(chain)
    /\ \E config \in StreamConfigs : NewStreamingRunnable(config)
    /\ NoConsumer
    /\ NewCheckpointableRunnable(FALSE)

NextStream ==
    \/ \E s \in ListenInputs : Stream(s)
    \/ \E s \in ListenInputs : ExecuteWithCallback(s)
    \/ NextInvoke
    \/ StreamSendOutcome
    \/ StreamCleanup
    \/ StreamCloseNext
    \/ StreamCancel
    \/ ParentCancel
    \/ ConsumeEvent
    \/ ExecOnEvent
    \/ ExecOnResult
    \/ ExecOnError
    \/ ExecOnDone
    \/ ExecOnCtxDone

\* One Stream call, made by a caller or by ExecuteWithCallback.
SpecStream == InitStream /\ [][NextStream]_vars

InitCancel ==
    /\ WrappersNone
    /\ \E chain \in CancelChains : CompileListenable(chain)
    /\ \E config \in StreamConfigs : NewStreamingRunnable(config)
    /\ NoConsumer
    /\ NewCheckpointableRunnable(FALSE)

\* One Stream call over a graph with a long-running node. The goroutine of
\* Stream and the goroutines Invoke starts are scheduled again and again;
\* the caller may stop reading or never cancel.
FairSpecCancel ==
    /\ InitCancel
    /\ [][NextStream]_vars
    /\ WF_vars(NextInvoke)
    /\ WF_vars(StreamSendOutcome)
    /\ WF_vars(StreamCleanup)
    /\ WF_vars(StreamCloseNext)

InitCkpt ==
    /\ WrappersNone
    /\ \E chain \in Chains :
          /\ \A i \in 1..Len(chain) : chain[i] \in NodeKinds
          /\ CompileListenable(chain)
    /\ NewStreamingRunnable(StreamNoConfig)
    /\ NoConsumer
    /\ \E autoSave \in BOOLEAN : NewCheckpointableRunnable(autoSave)

NextCkpt ==
    \/ \E s \in ListenInputs : CheckpointableInvoke(s)
    \/ NextInvoke
    \/ \E checkpoint \in ckPending : Save(checkpoint)
    \/ ListenTick

\* One CheckpointableRunnable.Invoke over a MemoryCheckpointStore.
SpecCkpt == InitCkpt /\ [][NextCkpt]_vars

NextCkptFail ==
    \/ NextCkpt
    \/ \E checkpoint \in ckPending : SaveFails(checkpoint)

\* One CheckpointableRunnable.Invoke over a store whose Save may fail.
SpecCkptFail == InitCkpt /\ [][NextCkptFail]_vars

InitConc ==
    /\ ConcNone
    /\ TimeoutNone
    /\ SaveErrorsNone
    /\ TracerNone
    /\ StoreNone
    /\ LateNone
    /\ CompileListenable(<<>>)
    /\ NewStreamingRunnable(StreamNoConfig)
    /\ NoConsumer
    /\ NewCheckpointableRunnable(FALSE)
    /\ InvokeIdle
    /\ now = 0
    /\ NewCircuitBreaker(CBNoConfig)
    /\ NewRetryNode(RetryNoConfig, <<>>)
    /\ NewRateLimiter(RLNoConfig)
    /\ \E g \in ConcGraphs :
          /\ nodes = g.nodes
          /\ edges = g.edges
          /\ conditionalEdges = g.conditionalEdges
          /\ entryPoint = g.entryPoint
          /\ compiled = CompileResult(g.entryPoint)

NextConc ==
    \/ \E c \in Callers, s \in InitialStates : ConcInvoke(c, s)
    \/ \E c \in Callers : ConcInvokeStep(c)

\* Every caller calls Invoke once on the same Runnable, all at once.
SpecConc == InitConc /\ [][NextConc]_vars

InitRace ==
    /\ ConcNone
    /\ TimeoutNone
    /\ SaveErrorsNone
    /\ TracerNone
    /\ StoreNone
    /\ LateNone
    /\ CompileListenable(<<>>)
    /\ NewStreamingRunnable(StreamNoConfig)
    /\ NoConsumer
    /\ NewCheckpointableRunnable(FALSE)
    /\ NewMessageGraph
    /\ InvokeIdle
    /\ now = 0
    /\ NewRetryNode(RetryNoConfig, <<>>)
    /\ \E config \in RaceCBConfigs : NewCircuitBreaker(config)
    /\ \E config \in RaceRLConfigs : NewRateLimiter(config)

NextRace ==
    \/ \E c \in RaceCallers : RaceRLFilter(c)
    \/ \E c \in RaceCallers : RaceRLCheck(c)
    \/ \E c \in RaceCallers : RaceRLRecord(c)
    \/ \E c \in RaceCallers : RaceCBEnter(c)
    \/ \E c \in RaceCallers, ok \in BOOLEAN : RaceCBInnerReturn(c, ok)
    \/ \E c \in RaceCallers : RaceCBUpdate(c)
    \/ RaceTick

\* One RateLimiter and one CircuitBreaker, each called by every caller with
\* no synchronization between the calls.
SpecRace == InitRace /\ [][NextRace]_vars

\* The graphs a TracedRunnable wraps: those of ConcGraphs, the empty run,
\* one node that succeeds or fails, and a chain whose first node fails.
TracedGraphs ==
    ConcGraphs \cup
    { [nodes |-> <<>>, edges |-> <<>>, conditionalEdges |-> <<>>,
       entryPoint |-> END],
      [nodes |-> [n \in {"A", "B"} |-> IF n = "A" THEN "fail" ELSE "inc"],
       edges |-> <<[from |-> "A", to |-> "B"], [from |-> "B", to |-> END]>>,
       conditionalEdges |-> <<>>, entryPoint |-> "A"] }
    \cup { [nodes |-> [n \in {"A"} |-> k],
            edges |-> <<[from |-> "A", to |-> END]>>,
            conditionalEdges |-> <<>>, entryPoint |-> "A"] : k \in NodeKinds }

InitTraced ==
    /\ ConcNone
    /\ TimeoutNone
    /\ SaveErrorsNone
    /\ StoreNone
    /\ LateNone
    /\ CompileListenable(<<>>)
    /\ NewStreamingRunnable(StreamNoConfig)
    /\ NoConsumer
    /\ NewCheckpointableRunnable(FALSE)
    /\ InvokeIdle
    /\ now = 0
    /\ NewCircuitBreaker(CBNoConfig)
    /\ NewRetryNode(RetryNoConfig, <<>>)
    /\ NewRateLimiter(RLNoConfig)
    /\ \E k \in 0..MaxHooks : tr = AddHooks(NewTracer, k)
    /\ \E g \in TracedGraphs :
          /\ nodes = g.nodes
          /\ edges = g.edges
          /\ conditionalEdges = g.conditionalEdges
          /\ entryPoint = g.entryPoint
          /\ compiled = CompileResult(g.entryPoint)

NextTraced ==
    \/ \E s \in InitialStates : TracedInvoke(s)
    \/ TracedLoop
    \/ TracedNodeReturn
    \/ TracerTick

\* One call of TracedRunnable.Invoke, the clock running.
SpecTraced == InitTraced /\ [][NextTraced]_vars

InitTracer ==
    /\ ConcNone
    /\ TimeoutNone
    /\ SaveErrorsNone
    /\ StoreNone
    /\ LateNone
    /\ CompileListenable(<<>>)
    /\ NewStreamingRunnable(StreamNoConfig)
    /\ NoConsumer
    /\ NewCheckpointableRunnable(FALSE)
    /\ NewMessageGraph
    /\ InvokeIdle
    /\ now = 0
    /\ NewCircuitBreaker(CBNoConfig)
    /\ NewRetryNode(RetryNoConfig, <<>>)
    /\ NewRateLimiter(RLNoConfig)
    /\ \E k \in 0..MaxHooks : tr = AddHooks(NewTracer, k)

NextTracer ==
    \/ \E event \in TraceEvents : TracerStartSpan(event, "A")
    \/ \E i \in 1..MaxTracerCalls, e \in {"nil", "boom"} :
          TracerEndSpan(i, <<0>>, e)
    \/ TracerTraceEdge("A", END)

\* A caller of the Tracer API: spans of every kind started and ended in any
\* order, all within one reading of the clock.
SpecTracer == InitTracer /\ [][NextTracer]_vars

InitStore ==
    /\ ConcNone
    /\ TimeoutNone
    /\ SaveErrorsNone
    /\ TracerNone
    /\ StoreNone
    /\ LateNone
    /\ CompileListenable(<<>>)
    /\ NewStreamingRunnable(StreamNoConfig)
    /\ NoConsumer
    /\ NewCheckpointableRunnable(FALSE)
    /\ NewMessageGraph
    /\ InvokeIdle
    /\ now = 0
    /\ NewCircuitBreaker(CBNoConfig)
    /\ NewRetryNode(RetryNoConfig, <<>>)
    /\ NewRateLimiter(RLNoConfig)

NextStore ==
    \/ \E checkpoint \in StoreCheckpoints : StoreSave(checkpoint)
    \/ \E n \in 1..MaxCheckpoints : Load(<<"checkpoint", n>>)
    \/ \E execID \in ExecIDs : StoreList(execID)
    \/ \E n \in 1..MaxCheckpoints : Delete(<<"checkpoint", n>>)
    \/ \E execID \in ExecIDs : Clear(execID)

\* One MemoryCheckpointStore and the calls of its owner, in any order.
SpecStore == InitStore /\ [][NextStore]_vars

\* None of the components of the sections before ParallelNode is in use.
EarlyNone ==
    /\ ConcNone
    /\ TimeoutNone
    /\ SaveErrorsNone
    /\ TracerNone
    /\ StoreNone
    /\ CompileListenable(<<>>)
    /\ NewStreamingRunnable(StreamNoConfig)
    /\ NoConsumer
    /\ NewCheckpointableRunnable(FALSE)
    /\ NewMessageGraph
    /\ InvokeIdle
    /\ now = 0
    /\ NewCircuitBreaker(CBNoConfig)
    /\ NewRetryNode(RetryNoConfig, <<>>)
    /\ NewRateLimiter(RLNoConfig)

InitParallel ==
    /\ EarlyNone
    /\ EngineNone
    /\ OverlapNone
    /\ \E kinds \in UNION {[1..n -> ParallelKinds] : n \in 0..MaxParallel} :
          pn = NewParallelNode(kinds)

NextParallel ==
    \/ \E s \in InitialStates : ParallelExecute(s)
    \/ \E i \in 1..MaxParallel : ParallelCall(i)
    \/ \E i \in 1..MaxParallel : ParallelFunctionReturn(i)
    \/ \E i \in 1..MaxParallel : ParallelWorkerDone(i)
    \/ ParallelClose
    \/ ParallelCollect
    \/ ParallelReturn

\* One call of ParallelNode.Execute and the goroutines it starts.
SpecParallel == InitParallel /\ [][NextParallel]_vars

InitEngines ==
    /\ ConcNone
    /\ TimeoutNone
    /\ SaveErrorsNone
    /\ StoreNone
    /\ LateNone
    /\ CompileListenable(<<>>)
    /\ NewStreamingRunnable(StreamNoConfig)
    /\ NoConsumer
    /\ NewCheckpointableRunnable(FALSE)
    /\ InvokeIdle
    /\ now = 0
    /\ NewCircuitBreaker(CBNoConfig)
    /\ NewRetryNode(RetryNoConfig, <<>>)
    /\ NewRateLimiter(RLNoConfig)
    /\ tr = AddHooks(NewTracer, 1)
    /\ \E g \in TracedGraphs :
          /\ nodes = g.nodes
          /\ edges = g.edges
          /\ conditionalEdges = g.conditionalEdges
          /\ entryPoint = g.entryPoint
          /\ compiled = CompileResult(g.entryPoint)

NextEngines ==
    \/ \E s \in InitialStates : TracedInvoke(s)
    \/ TracedLoop
    \/ TracedNodeReturn
    \/ \E s \in InitialStates : EngineInvoke(s)
    \/ EngineStep

\* One TracedRunnable.Invoke and one ListenableRunnable.Invoke on the same
\* compiled graph.
SpecEngines == InitEngines /\ [][NextEngines]_vars

InitOverlap ==
    /\ EarlyNone
    /\ ParallelNone
    /\ EngineNone
    /\ \E chain \in OverlapChains, registered \in {<<>>, <<UserListener>>} :
          ov = NewOverlap(chain, registered)

NextOverlap ==
    \/ \E r \in OverlapRuns, kind \in {"stream", "ckpt"} : OverlapCall(r, kind)
    \/ \E r \in OverlapRuns, i \in 1..2 : OverlapAttach(r, i)
    \/ \E r \in OverlapRuns : OverlapNotifyStart(r)
    \/ \E r \in OverlapRuns : OverlapNotifyEnd(r)
    \/ \E r \in OverlapRuns : OverlapNext(r)
    \/ \E r \in OverlapRuns, i \in 1..2 : OverlapDetach(r, i)
    \/ \E r \in OverlapRuns : OverlapCloseChannels(r)
    \/ \E d \in ov.disp : OverlapCheckClosed(d)
    \/ \E d \in ov.disp : OverlapSend(d)

\* Two calls, each a Stream or a CheckpointableRunnable.Invoke, on the same
\* ListenableRunnable, in every interleaving.
SpecOverlap == InitOverlap /\ [][NextOverlap]_vars

NextSpans ==
    \/ NextTraced
    \/ \E s \in InitialStates : SetTracerInvoke(s)
    \/ SetTracerLoop
    \/ SetTracerNodeReturn

\* One call of Invoke with a tracer: of a TracedRunnable, or of a Runnable
\* whose tracer is set.
SpecSpans == InitTraced /\ [][NextSpans]_vars

\* The wrapped functions of SpecTimeout: "ctx" returns ctx.Err() once its
\* context is done, the others ignore the context.
InitTimeout ==
    /\ ConcNone
    /\ SaveErrorsNone
    /\ TracerNone
    /\ StoreNone
    /\ LateNone
    /\ CompileListenable(<<>>)
    /\ NewStreamingRunnable(StreamNoConfig)
    /\ NoConsumer
    /\ NewCheckpointableRunnable(FALSE)
    /\ NewMessageGraph
    /\ InvokeIdle
    /\ now = 0
    /\ NewCircuitBreaker(CBNoConfig)
    /\ NewRetryNode(RetryNoConfig, <<>>)
    /\ NewRateLimiter(RLNoConfig)
    /\ \E kind \in ListenKinds, timeout \in 1..MaxTimeout :
          tn = NewTimeoutNode(kind, timeout)

NextTimeout ==
    \/ \E s \in ListenInputs : TimeoutExecute(s)
    \/ TimeoutInnerReturn
    \/ TimeoutSelectResult
    \/ TimeoutSelectDone
    \/ TimeoutParentCancel
    \/ TimeoutTick

\* One call of TimeoutNode.Execute.
SpecTimeout == InitTimeout /\ [][NextTimeout]_vars





\* ------------------------------------------------------------------------
\* Claims about Runnable.Invoke
\* ------------------------------------------------------------------------

\* Indexes of the static edges that start at n.
EdgesFrom(n) == {i \in 1..Len(edges) : edges[i].from = n}

Min(S) == CHOOSE x \in S : \A y \in S : x <= y

\* The names the traversal can move to from n, whatever the state.
Succ(n) ==
    IF n = END THEN {}
    ELSE IF n \in DOMAIN conditionalEdges
    THEN {CondFunction(conditionalEdges[n], s) : s \in States} \ {""}
    ELSE IF EdgesFrom(n) = {} THEN {}
    ELSE {edges[Min(EdgesFrom(n))].to}

RECURSIVE Closure(_)
Closure(S) ==
    LET T == S \cup UNION {Succ(n) : n \in S}
    IN  IF T = S THEN S ELSE Closure(T)

Reachable == Closure({entryPoint})

\* The precondition of C1: the entry point is set and every reachable node
\* other than END has a conditional edge or a static edge.
C1_Pre ==
    /\ compiled = "ok"
    /\ \A n \in Reachable \ {END} :
          n \in DOMAIN conditionalEdges \/ EdgesFrom(n) # {}

\* Every reachable node is registered, its function returns no error, and no
\* conditional edge returns the empty string.
C1_Healthy ==
    \A n \in Reachable \ {END} :
        /\ n \in DOMAIN nodes
        /\ nodes[n] = "inc"
        /\ n \in DOMAIN conditionalEdges =>
              \A s \in States : CondFunction(conditionalEdges[n], s) # ""

\* No reachable node can be reached again from itself.
C1_Acyclic == \A n \in Reachable \ {END} : n \notin Closure(Succ(n))

\* The state produced by the last executed node (the initial state when no
\* node was executed).
LastProduced == IF lastExec = "" THEN initialState ELSE lastOut.state

\* C1 as stated: under the precondition alone, a running Invoke terminates.
C1_Original == (pc = "running" /\ C1_Pre) ~> (pc \in {"done", "failed"})

\* C1 amended: whenever Invoke returns without error it returns the state
\* produced by the last executed node, and on a graph without a reachable
\* cycle whose reachable nodes are registered and succeed, Invoke terminates
\* without error.
C1_Amended ==
    /\ [](pc = "done" => (result = LastProduced /\ currentNode = END))
    /\ (pc = "running" /\ C1_Pre /\ C1_Healthy /\ C1_Acyclic) ~> (pc = "done")

\* C1 witness: a two-node run A, B, END that has returned B's output.
C1_Witness ==
    /\ pc = "done"
    /\ C1_Pre /\ C1_Healthy /\ C1_Acyclic
    /\ entryPoint = "A"
    /\ lastExec = "B"
    /\ result = lastOut.state
    /\ result # initialState

\* C2: after a node succeeds, the next node is the conditional edge's result
\* when one is registered for it (the empty string fails with
\* EmptyConditionalTarget) and static edges are ignored; else it is the target
\* of the first static edge added from the node, and Invoke fails with
\* NoOutgoingEdge when there is none.
C2_NextNode ==
    [][(/\ pc = "running"
        /\ currentNode # END
        /\ currentNode \in DOMAIN nodes
        /\ NodeFunction(nodes[currentNode], state).err = "nil")
       => LET s == NodeFunction(nodes[currentNode], state).state
          IN  IF currentNode \in DOMAIN conditionalEdges
              THEN LET t == CondFunction(conditionalEdges[currentNode], s)
                   IN  IF t = ""
                       THEN /\ pc' = "failed"
                            /\ err'.kind = "EmptyConditionalTarget"
                       ELSE /\ pc' = "running"
                            /\ currentNode' = t
              ELSE IF EdgesFrom(currentNode) = {}
              THEN /\ pc' = "failed"
                   /\ err'.kind = "NoOutgoingEdge"
              ELSE /\ pc' = "running"
                   /\ currentNode' = edges[Min(EdgesFrom(currentNode))].to]_vars

\* C2 witness: A has run, has a conditional edge to B and a first static edge
\* that leads elsewhere, and the cursor is on B.
C2_Witness ==
    /\ pc = "running"
    /\ lastExec = "A"
    /\ "A" \in DOMAIN conditionalEdges
    /\ EdgesFrom("A") # {}
    /\ edges[Min(EdgesFrom("A"))].to # "B"
    /\ currentNode = "B"

\* C3: when a node function returns an error, Invoke has returned, with a nil
\* state and an error naming the node and wrapping the cause, so that no
\* further node function runs; and Invoke never returns a non-nil state
\* together with a non-nil error.
C3_ErrorAbort ==
    /\ lastOut.err # "nil" =>
          /\ pc = "failed"
          /\ result = Nil
          /\ err = MkErr("NodeExecutionError", lastExec, lastOut.err)
    /\ pc = "failed" => (result = Nil /\ err # NoErr)
    /\ pc = "done" => err = NoErr
    /\ ~(result # Nil /\ err # NoErr)

\* C3 witness: B failed after A had run, returning a non-nil partial state.
C3_Witness ==
    /\ pc = "failed"
    /\ entryPoint = "A"
    /\ lastExec = "B"
    /\ lastOut.err # "nil"
    /\ lastOut.state # Nil
    /\ lastOut.state # initialState
\* ------------------------------------------------------------------------
\* Claims about CircuitBreaker.Execute
\* ------------------------------------------------------------------------

\* A call of Execute starts in this step.
CBCallStarts == cbCalls' = cbCalls + 1

\* The wrapped function returns in this step.
CBCallReturns == cbPc = "inner" /\ cbPc' = "idle"

\* Time since the last failure of the wrapped function returned.
SinceLastFailure == now - cbLastFailAt[1]

\* C4: from Closed, the failure that completes failureThreshold consecutive
\* failures opens the circuit; a call made while Open, before openTimeout has
\* elapsed since the last failure, is rejected with CircuitOpen and the
\* wrapped function's call count does not change.
C4_OpensAndRejects ==
    [][/\ (/\ CBCallReturns
           /\ cbExecIn = "Closed"
           /\ cbRet' = "InnerError"
           /\ cbConsecFail' >= cbCfg.failureThreshold)
          => cbState' = "Open"
       /\ cbState = "Open" => cbLastFailAt # <<>>
       /\ (/\ CBCallStarts
           /\ cbState = "Open"
           /\ SinceLastFailure < cbCfg.timeout)
          => /\ cbPc' = "idle"
             /\ cbRet' = "CircuitOpen"
             /\ cbCallCount' = cbCallCount
             /\ cbState' = "Open"]_vars

\* C4 witness: failureThreshold = 2, two failures, and a third call rejected
\* with the call count still 2.
C4_Witness ==
    /\ cbCfg.failureThreshold = 2
    /\ cbCalls = 3
    /\ cbCallCount = 2
    /\ cbConsecFail = 2
    /\ cbPc = "idle"
    /\ cbRet = "CircuitOpen"
    /\ cbState = "Open"

\* C5 as stated: in a HalfOpen period the wrapped function is executed for at
\* most halfOpenMaxCalls calls, and the call rejected with
\* CircuitHalfOpenLimitReached leaves the breaker Open without executing it.
C5_Claim ==
    /\ cbPeriodExecs <= cbCfg.halfOpenMaxCalls
    /\ (cbPc = "idle" /\ cbRet = "HalfOpenLimitReached")
          => (cbState = "Open" /\ cbExecIn = "none")

\* C6 as stated: when a call executed while HalfOpen has failed, the breaker
\* is Open when the call returns.
C6_Claim ==
    (cbPc = "idle" /\ cbExecIn = "HalfOpen" /\ cbRet = "InnerError")
        => cbState = "Open"

\* The part of C7 about probes: a successful probe closes the breaker exactly
\* when it completes successThreshold probe successes since the last failure,
\* and the breaker becomes Closed in no other way.
C7_Probes ==
    /\ (CBCallReturns /\ cbExecIn = "HalfOpen" /\ cbRet' = "ok")
          => (cbState' = "Closed" <=> cbProbeStreak' >= cbCfg.successThreshold)
    /\ (cbState # "Closed" /\ cbState' = "Closed")
          => /\ CBCallReturns
             /\ cbExecIn = "HalfOpen"
             /\ cbRet' = "ok"
             /\ cbProbeStreak' >= cbCfg.successThreshold

\* A call to an Open breaker that is executed in HalfOpen.
C7_ExecutedHalfOpen ==
    /\ cbPc' = "inner"
    /\ cbState' = "HalfOpen"
    /\ cbExecIn' = "HalfOpen"
    /\ cbCallCount' = cbCallCount + 1

\* C7 as stated: once openTimeout has elapsed since the last failure (the
\* time since it is at least openTimeout), the next call to an Open breaker
\* is executed in HalfOpen.
C7_Original ==
    [][/\ (/\ CBCallStarts
           /\ cbState = "Open"
           /\ SinceLastFailure >= cbCfg.timeout)
          => C7_ExecutedHalfOpen
       /\ C7_Probes]_vars

\* C7 amended: once more than openTimeout has elapsed since the last
\* failure, the next call to an Open breaker is executed in HalfOpen; the
\* part about probes is unchanged.
C7_Amended ==
    [][/\ (/\ CBCallStarts
           /\ cbState = "Open"
           /\ SinceLastFailure > cbCfg.timeout)
          => C7_ExecutedHalfOpen
       /\ C7_Probes]_vars

\* C7 witness: successThreshold = 2, the breaker opened, was probed after
\* the timeout, and the second probe success has closed it.
C7_Witness ==
    /\ cbCfg.successThreshold = 2
    /\ cbCfg.timeout > 0
    /\ cbPc = "idle"
    /\ cbExecIn = "HalfOpen"
    /\ cbRet = "ok"
    /\ cbProbeStreak = 2
    /\ cbLastFailAt # <<>>
    /\ cbState = "Closed"
\* ------------------------------------------------------------------------
\* Claims about RetryNode.Execute
\* ------------------------------------------------------------------------

\* The classifier rejects the error e.
Rejected(e) == rtCfg.retryable # "nil" /\ ~Classify(rtCfg.retryable, e)

\* C8: with a context never cancelled and every error classified retryable,
\* a wrapped function that fails k < maxAttempts times and then succeeds is
\* invoked exactly k + 1 times and its success is returned; one that fails
\* every time is invoked exactly maxAttempts times and RetryExhausted, wrapping
\* its last error, is returned.
C8_RetryCounts ==
    (/\ rtPc = "done"
     /\ ~ctxDone
     /\ \A i \in 1..Len(rtScript) : ~Rejected(rtScript[i]))
    => IF Len(rtScript) < rtCfg.maxAttempts
       THEN /\ rtCalls = Len(rtScript) + 1
            /\ rtRet = [kind |-> "ok", cause |-> "nil"]
       ELSE /\ rtCalls = rtCfg.maxAttempts
            /\ rtRet.kind = "RetryExhausted"
            /\ rtRet.cause = IF rtCfg.maxAttempts = 0 THEN "nil"
                             ELSE rtScript[rtCfg.maxAttempts]

\* C8 witness: maxAttempts = 3, two failures, then the success at the third
\* call, after two sleeps.
C8_Witness ==
    /\ rtPc = "done"
    /\ ~ctxDone
    /\ rtCfg.maxAttempts = 3
    /\ Len(rtScript) = 2
    /\ rtCalls = 3
    /\ Len(rtSleeps) = 2
    /\ rtRet.kind = "ok"

\* C9: when the classifier rejects the error of an attempt, Execute returns
\* NonRetryable wrapping that error right after the attempt: that call of the
\* wrapped function is the last one and no sleep follows it.
C9_NonRetryable ==
    [][/\ \A j \in 1..Len(rtScript) :
              (rtCalls < j /\ j <= rtCalls' /\ Rejected(rtScript[j]))
              => /\ rtCalls' = j
                 /\ rtPc' = "done"
                 /\ rtRet' = [kind |-> "NonRetryable", cause |-> rtScript[j]]
       /\ rtPc = "done" => (rtCalls' = rtCalls /\ rtSleeps' = rtSleeps)]_vars

\* C9 witness: a retried failure, one sleep, then a rejected error at the
\* second of three attempts.
C9_Witness ==
    /\ rtPc = "done"
    /\ rtCfg.maxAttempts = 3
    /\ rtRet.kind = "NonRetryable"
    /\ rtCalls = 2
    /\ Len(rtSleeps) = 1

\* ------------------------------------------------------------------------
\* Claims about RateLimiter.Execute
\* ------------------------------------------------------------------------

\* The calls of the wrapped function made less than window before t.
RLYounger(t) ==
    {i \in 1..Len(rlExecTimes) : t - rlExecTimes[i] < rlCfg.window}

\* No more than maxCalls calls of the wrapped function lie within an interval
\* shorter than window.
RLWindowSafe ==
    \A i, j \in 1..Len(rlExecTimes) :
        (i <= j /\ rlExecTimes[j] - rlExecTimes[i] < rlCfg.window)
        => j - i + 1 <= rlCfg.maxCalls

\* A call that starts while maxCalls admitted calls are younger than window
\* is rejected with RateLimited, does not reach the wrapped function and is
\* not recorded.
RLRejectsAtLimit ==
    (rlCalls' = rlCalls + 1 /\ Cardinality(RLYounger(now)) >= rlCfg.maxCalls)
    => /\ rlPc' = "idle"
       /\ rlRet'.kind = "RateLimited"
       /\ rlCallCount' = rlCallCount
       /\ Len(calls') <= Len(calls)

\* C10 as stated: with calls made one at a time, the wrapped function is
\* never executed more than maxCalls times within an interval shorter than
\* window, and a call arriving at the limit is rejected with RateLimited,
\* not executed and not recorded.
C10_Claim == [][RLWindowSafe' /\ RLRejectsAtLimit]_vars

\* The same for a limiter with maxCalls >= 1.
C10_PositiveLimit ==
    [][rlCfg.maxCalls >= 1 => (RLWindowSafe' /\ RLRejectsAtLimit)]_vars

\* A call that starts is admitted: it is recorded and reaches the wrapped
\* function.
RLAdmitted ==
    /\ rlPc' = "inner"
    /\ rlCallCount' = rlCallCount + 1
    /\ calls' # <<>> /\ calls'[Len(calls')] = now

\* C11: a call to a RateLimiter with maxCalls >= 1 is admitted and executed
\* whenever fewer than maxCalls admitted calls are younger than window; in
\* particular, once the limiter has filled up, a call made at least window
\* after the oldest recorded call is admitted.
C11_Admits ==
    [][(rlCfg.maxCalls >= 1 /\ rlCalls' = rlCalls + 1)
       => /\ Cardinality(RLYounger(now)) < rlCfg.maxCalls => RLAdmitted
          /\ (Len(calls) >= rlCfg.maxCalls /\ now - calls[1] >= rlCfg.window)
             => RLAdmitted]_vars

\* A limiter that filled up and rejected a call admits a call made window or
\* more after the first admitted one.
C11_Witness ==
    /\ rlCfg.maxCalls >= 1
    /\ rlPc = "inner"
    /\ rlCalls > rlCallCount
    /\ rlCallCount = rlCfg.maxCalls + 1
    /\ rlExecTimes[Len(rlExecTimes)] = now
    /\ now - rlExecTimes[1] >= rlCfg.window
    /\ now - rlExecTimes[rlCfg.maxCalls] < rlCfg.window


\* ------------------------------------------------------------------------
\* Claims about StreamingRunnable.Stream
\* ------------------------------------------------------------------------

\* The goroutine of Stream is past its select: the channels are closed or
\* about to be.
StreamPastSend == stPc \in {"defer", "closing", "finished"}

\* C12 as stated: every Stream call, cancelled or not, has delivered exactly
\* one value in total on the result and error channels (the outcome of its
\* Invoke) before those channels are closed.
C12_Claim ==
    /\ stOutcomes <= 1
    /\ StreamPastSend => stOutcomes = 1

\* The same for a Stream call whose streamCtx is not cancelled when the
\* outcome is sent.
C12_NotCancelled ==
    (StreamPastSend /\ ~streamDone) => stOutcomes = 1

\* ------------------------------------------------------------------------
\* Claims about the event stream
\* ------------------------------------------------------------------------

\* A -> B -> END, streamed with room for every event.
C13_Pre == Len(lgKinds) = 2 /\ stCfg.bufferSize >= 2 * Len(lgKinds)

EventIs(ev, nodeName, kinds) == ev.node = nodeName /\ ev.event \in kinds

\* The events sent so far are the first events of: A's start, A's complete
\* or error, B's start, B's complete or error.
C13_Ordered ==
    /\ Len(stSent) <= 4
    /\ Len(stSent) >= 1 => EventIs(stSent[1], "A", {"start"})
    /\ Len(stSent) >= 2 => EventIs(stSent[2], "A", {"complete", "error"})
    /\ Len(stSent) >= 3 => EventIs(stSent[3], "B", {"start"})
    /\ Len(stSent) >= 4 => EventIs(stSent[4], "B", {"complete", "error"})

\* C13 as stated: for A -> B -> END streamed with an event buffer that
\* holds every event, the events channel delivers A's start, A's complete or
\* error, B's start, B's complete or error, in exactly that order.
C13_Original ==
    C13_Pre => /\ C13_Ordered
               /\ StreamPastSend => Len(stSent) = 4

\* C13, amended: the four events are delivered in that order when A
\* completes; when A fails the stream ends with A's start and A's error,
\* and B is never started.
C13_Amended ==
    C13_Pre =>
       /\ C13_Ordered
       /\ StreamPastSend =>
             IF lnExecs[1].err = "nil"
             THEN /\ Len(stSent) = 4
                  /\ stSent[2].event = "complete"
                  /\ stSent[4].event =
                         (IF lnExecs[2].err = "nil" THEN "complete" ELSE "error")
             ELSE /\ Len(stSent) = 2
                  /\ stSent[2].event = "error"
                  /\ Len(lnExecs) = 1

\* A stream of A -> B -> END in which A completed and B failed has ended.
C13_Witness ==
    /\ C13_Pre
    /\ stPc = "finished"
    /\ Len(stSent) = 4
    /\ stSent[2].event = "complete"
    /\ stSent[4].event = "error"

\* ------------------------------------------------------------------------
\* Claims about checkpointing
\* ------------------------------------------------------------------------

\* Every save goroutine has run.
SavesDone == ckPending = {}

\* The checkpoint c holds the name and the result of the i-th node
\* execution, which succeeded.
CheckpointOf(c, i) ==
    /\ lnExecs[i].err = "nil"
    /\ c.nodeName = lnExecs[i].node
    /\ c.state = lnExecs[i].state

\* C14 as stated: a successful run of an N-node linear graph with AutoSave
\* on results in exactly N checkpoints listed for the run, one per node,
\* each holding that node's post-execution state.
C14_Claim ==
    (ckAutoSave /\ lrPc = "done" /\ SavesDone)
    => /\ Cardinality(ListCheckpoints) = Len(lgKinds)
       /\ \A i \in 1..Len(lgKinds) :
             \E c \in ListCheckpoints : CheckpointOf(c, i)

C16_OnlySuccessful ==
    \A c \in ckPending \cup {ckStore[id] : id \in DOMAIN ckStore} :
        \E i \in 1..Len(lnExecs) : CheckpointOf(c, i)

\* The checkpoint listener has been handed the "error" event of a failed
\* node and has returned, with AutoSave on, and no checkpoint exists.
C16_Witness ==
    /\ ckAutoSave
    /\ lnPc = "end"
    /\ lnOut.err # "nil"
    /\ Len(lnTasks) = 1
    /\ lnTasks[1].l = CheckpointListenerRec
    /\ lnTasks[1].ev.event = "error"
    /\ lnTasks[1].st = "done"
    /\ ckPending = {}
    /\ ckStore = <<>>

\* ------------------------------------------------------------------------
\* Claims about ListenableNode.Execute
\* ------------------------------------------------------------------------

\* The event that ends the current Execute.
EndEvent == IF lnOut.err # "nil" THEN "error" ELSE "complete"

\* Execute has returned (and the next one has not begun).
ExecuteReturned == lnPc = "idle" /\ lnFnCalls = 1

\* Every goroutine of the current batch has ended, its observer having got
\* the event of the batch last.
BatchDelivered ==
    \A i \in 1..Len(lnTasks) :
        /\ lnTasks[i].st = "done"
        /\ lnSeen[lnTasks[i].l.id] # <<>>
        /\ lnSeen[lnTasks[i].l.id][Len(lnSeen[lnTasks[i].l.id])]
               = lnTasks[i].ev.event

PanicInBatch == \E i \in 1..Len(lnTasks) : lnTasks[i].l.kind = "panic"

\* C18: a panic raised inside one observer's handler is contained: the
\* inner function still runs, Execute returns the inner function's result
\* and error unchanged, and every other registered observer still receives
\* the event.
C18_PanicContained ==
    /\ lnPc # "crashed"
    /\ (PanicInBatch /\ (lnPc = "fn" \/ ExecuteReturned)) =>
          /\ lnFnCalls = 1
          /\ BatchDelivered
    /\ (PanicInBatch /\ ExecuteReturned) =>
          /\ lnOut = [state |-> lnExecs[Len(lnExecs)].state,
                      err |-> lnExecs[Len(lnExecs)].err]
          /\ lnOut.err = "nil" => lrState = lnOut.state
          /\ lnOut.err # "nil" =>
                (lrPc = "failed" /\ lrRet = [state |-> Nil, err |-> lnOut.err])

\* Execute has returned with a panicking observer registered first and a
\* plain one after it: both handlers were called for both events.
C18_Witness ==
    /\ ExecuteReturned
    /\ Len(lnTasks) = 2
    /\ lnTasks[1].l.kind = "panic"
    /\ lnTasks[2].l.kind = "plain"
    /\ lnOut.err = "nil"
    /\ lnSeen[lnTasks[1].l.id] = <<"start", "complete">>
    /\ lnSeen[lnTasks[2].l.id] = <<"start", "complete">>

\* ------------------------------------------------------------------------
\* Claims about backpressure
\* ------------------------------------------------------------------------

\* The non-blocking send: a goroutine that is about to call OnNodeEvent
\* can always take its step, whatever the state of eventChan.
NeverBlocks ==
    \A i \in 1..Len(lnTasks) :
        (lnPc \in {"start", "end"} /\ lnTasks[i].st = "ready")
        => ENABLED ListenerBegin(i)

RunOutcome == [result |-> lrRet.state, err |-> lrRet.err]

\* C20 as stated: with a context that is not cancelled, ExecuteWithCallback
\* invokes resultCallback exactly once, with the run's actual final state or
\* error, and returns that same error (nil on success), in whatever order
\* the event, result, error and done channels become ready or are closed.
C20_Claim ==
    /\ Len(exCallbacks) <= 1
    /\ (exPc = "returned" /\ ~parentDone) =>
          /\ exCallbacks = <<RunOutcome>>
          /\ exRet = lrRet.err

\* ExecuteWithCallback has returned without having called resultCallback:
\* the closed Events channel was taken before the buffered outcome.
C20_NoCallback ==
    ~(exPc = "returned" /\ ~parentDone /\ exCallbacks = <<>>)

\* ExecuteWithCallback has called resultCallback with (nil, nil) after a
\* run that failed: a receive on the closed Errors channel reset finalError.
C20_ErrorLost ==
    ~(/\ exPc = "returned" /\ ~parentDone
      /\ lrRet.err # "nil"
      /\ exCallbacks = <<[result |-> Nil, err |-> "nil"]>>
      /\ exRet = "nil")

\* ------------------------------------------------------------------------
\* Claims about concurrent calls
\* ------------------------------------------------------------------------

\* A call of Invoke(s) made alone, run to its return from cursor cur:
\* [path, ret]. The graphs of ConcGraphs return within MaxState + 2 nodes.
RECURSIVE RunFrom(_, _, _)
RunFrom(cur, s, path) ==
    LET it == InvokeIteration(cur, s)
    IN  IF it.done \/ Len(path) > MaxState + 2
        THEN [path |-> path \o it.exec, ret |-> it.ret]
        ELSE RunFrom(it.next, it.state, path \o it.exec)

RunAlone(s) == RunFrom(entryPoint, s, <<>>)

IsPrefix(p, q) == Len(p) <= Len(q) /\ SubSeq(q, 1, Len(p)) = p

CBThresholdMissed == cbState = "Closed" /\ cbConsecFail >= cbCfg.failureThreshold

\* C22: the limits that hold under sequential use are exceeded only in
\* behaviours where calls of Execute overlapped: more than maxCalls
\* executions inside one window for the RateLimiter, a lost failure count
\* that leaves the CircuitBreaker Closed past its failure threshold.
C22_UnsafeWhenConcurrent ==
    /\ ~RLWindowSafe => rcOverlap.rl
    /\ (CBThresholdMissed \/ failures < cbConsecFail) => rcOverlap.cb

\* Both limits are exceeded in one behaviour of concurrent callers.
C22_Witness ==
    /\ ~RLWindowSafe
    /\ CBThresholdMissed
    /\ failures < cbConsecFail
    /\ \A c \in RaceCallers : rcRL[c].pc = "done" /\ rcCB[c].pc = "done"

\* ------------------------------------------------------------------------
\* Claims about TimeoutNode.Execute
\* ------------------------------------------------------------------------

TimeoutReturned == tn.pc = "returned"

\* The inner call is not killed: while it runs it can still finish, and its
\* send finds room in resultChan.
TimeoutInnerAlive ==
    (TimeoutReturned /\ tn.inner = "running") => ENABLED TimeoutInnerReturn

\* Execute never waits for the inner call once its context is done.
TimeoutNeverWaits ==
    (tn.pc = "select" /\ now >= TimeoutDeadline) => ENABLED TimeoutSelectDone

\* C23 as stated: Execute returns the inner function's result and error
\* unchanged when the inner call finishes before the deadline, and
\* ExecutionTimeout when the deadline passes first; in the timeout case it
\* returns without waiting for the inner task, which keeps running.
C23_Original ==
    /\ (TimeoutReturned /\ tn.doneAt # <<>> /\ tn.doneAt[1] < TimeoutDeadline)
          => tn.ret = tn.out
    /\ (TimeoutReturned /\ tn.innerAtRet = "running" /\ tn.retAt[1] >= TimeoutDeadline)
          => tn.ret = TimeoutError
    /\ TimeoutInnerAlive
    /\ TimeoutNeverWaits

\* C23 amended: Execute returns either the inner function's result and
\* error unchanged or ExecutionTimeout; the inner result only once the inner
\* call has finished, and always when Execute returns before the derived
\* context is done; ExecutionTimeout only once the derived context is done
\* (the deadline has passed or the caller's context is cancelled), and always
\* when the inner call has not finished by then. The timeout case is as
\* stated.
C23_Amended ==
    /\ TimeoutReturned =>
          \/ tn.ret = tn.out /\ tn.innerAtRet = "finished"
          \/ tn.ret = TimeoutError /\ (tn.retAt[1] >= TimeoutDeadline \/ tn.parentDone)
    /\ (TimeoutReturned /\ ~tn.doneAtRet) => tn.ret = tn.out
    /\ (TimeoutReturned /\ tn.innerAtRet = "running") => tn.ret = TimeoutError
    /\ TimeoutInnerAlive
    /\ TimeoutNeverWaits

\* Execute has returned ExecutionTimeout at the deadline while the inner
\* call, which ignores the context and fails, was running; the inner call
\* has finished since, its result left in resultChan.
C23_Witness ==
    /\ TimeoutReturned
    /\ tn.kind = "fail"
    /\ tn.ret = TimeoutError
    /\ tn.innerAtRet = "running"
    /\ ~tn.parentDone
    /\ tn.inner = "finished"
    /\ tn.doneAt[1] > tn.retAt[1]
    /\ Len(tn.resultChan) = 1

\* ------------------------------------------------------------------------
\* Claims about END and Compile
\* ------------------------------------------------------------------------

\* C24: traversal halts exactly when the cursor equals END: at END Invoke
\* returns the state it holds, with no error and without calling a node
\* function; it returns successfully at no other cursor; and no node function
\* is ever called under the name END, registered or not.
C24_HaltsAtEnd ==
    [][/\ (pc = "running" /\ currentNode = END)
          => /\ pc' = "done"
             /\ result' = state
             /\ err' = NoErr
             /\ lastExec' = lastExec
             /\ lastOut' = lastOut
       /\ (pc = "running" /\ pc' = "done") => currentNode = END
       /\ lastExec' # END]_vars

\* A node named END is registered and is the target of A's edge; Invoke ran A
\* and returned A's output at END.
C24_Witness ==
    /\ END \in DOMAIN nodes
    /\ pc = "done"
    /\ lastExec = "A"
    /\ currentNode = END
    /\ result = lastOut.state
    /\ result # initialState

\* Invoke fails with NodeNotFound in this step.
FailsNodeNotFound == pc = "running" /\ pc' = "failed" /\ err'.kind = "NodeNotFound"

\* The cursor names neither END nor a registered node.
AtMissingNode == pc = "running" /\ currentNode # END /\ currentNode \notin DOMAIN nodes

\* C25: Compile fails, with EntryPointNotSet, exactly when no entry point is
\* set, whatever the nodes and edges name; Invoke fails with NodeNotFound
\* exactly in the step whose cursor names a missing node, naming it and
\* calling no function, and the cursor got there either as the entry point
\* or from the node executed last, whose function had been called.
C25_LazyValidation ==
    [][/\ compiled' # "no" => (compiled' = "EntryPointNotSet" <=> entryPoint' = "")
       /\ compiled' # "no" => (compiled' = "ok" <=> entryPoint' # "")
       /\ FailsNodeNotFound <=> AtMissingNode
       /\ FailsNodeNotFound =>
             /\ err'.node = currentNode
             /\ result' = Nil
             /\ lastExec' = lastExec
             /\ \/ lastExec = "" /\ currentNode = entryPoint
                \/ /\ lastExec \in DOMAIN nodes
                   /\ lastOut.err = "nil"
                   /\ ResolveNext(lastExec, lastOut.state).next = currentNode]_vars

\* A graph whose conditional edge at A names the unregistered B compiled,
\* and Invoke ran A before failing with NodeNotFound at B.
C25_Witness ==
    /\ compiled = "ok"
    /\ entryPoint = "A"
    /\ "A" \in DOMAIN conditionalEdges
    /\ "B" \notin DOMAIN nodes
    /\ pc = "failed"
    /\ err = MkErr("NodeNotFound", "B", "")
    /\ lastExec = "A"
    /\ lastOut.err = "nil"
    /\ state # initialState

\* ------------------------------------------------------------------------
\* Claims about failing saves
\* ------------------------------------------------------------------------

\* Invoke over the chain from its i-th node with state s, no listener
\* involved: [pc, ret, execs].
RECURSIVE ChainRun(_, _, _)
ChainRun(i, s, execs) ==
    IF i > Len(lgKinds)
    THEN [pc |-> "done", ret |-> [state |-> s, err |-> "nil"], execs |-> execs]
    ELSE LET out == ListenableFunction(lgKinds[i], s, FALSE)
             e == Append(execs, [node |-> ChainNames[i], state |-> out.state,
                                 err |-> out.err])
         IN  IF out.err # "nil"
             THEN [pc |-> "failed", ret |-> [state |-> Nil, err |-> out.err],
                   execs |-> e]
             ELSE ChainRun(i + 1, out.state, e)

\* C26: the outcome of CheckpointableRunnable.Invoke, that is the nodes
\* executed, the state and the error returned, is that of the graph alone,
\* whether the saves of the run succeed or fail, and no error of Save is
\* reported to the caller.
C26_SaveFailuresSilent ==
    /\ ckErrs.reported = 0
    /\ lrPc \in {"done", "failed"} =>
          \E s \in ListenInputs :
              LET r == ChainRun(1, s, <<>>)
              IN  /\ lrPc = r.pc
                  /\ lrRet = r.ret
                  /\ lnExecs = r.execs

\* A two-node run with AutoSave on has succeeded although the save of each
\* node's checkpoint failed: nothing is stored.
C26_Witness ==
    /\ ckAutoSave
    /\ lrPc = "done"
    /\ Len(lnExecs) = 2
    /\ lrRet.err = "nil"
    /\ ckErrs.failed = 2
    /\ ckPending = {}
    /\ ckStore = <<>>

\* ------------------------------------------------------------------------
\* Claims about the end of a stream
\* ------------------------------------------------------------------------

AllClosed == chClosed = Len(ChannelOrder)

\* Channels are closed only by the goroutine's deferred function, after
\* Invoke has returned, one at a time in the order Events, Result, Errors,
\* Done.
ClosedAfterInvoke ==
    /\ chClosed > 0 => (lrPc \in {"done", "failed"} /\ stPc \in {"closing", "finished"})
    /\ Closed("done") <=> AllClosed
    /\ stPc = "finished" <=> AllClosed

\* C27: once streamCtx is cancelled on a running stream whose node code
\* observes the context, the run ends and Done is eventually closed; all four
\* channels are closed, Done last, once the background Invoke has returned
\* and never before.
C27_CancelCloses ==
    /\ []ClosedAfterInvoke
    /\ (stPc # "none" /\ streamDone) ~> Closed("done")
    /\ [](lrPc \in {"done", "failed"} /\ stPc # "none" => <>AllClosed)

\* The caller cancelled a stream blocked in its long-running node, the node
\* returned the context's error, and all four channels are closed.
C27_Witness ==
    /\ consumer = "caller"
    /\ streamDone /\ ~parentDone
    /\ lgKinds[1] = "wait"
    /\ lrPc = "failed"
    /\ lrRet.err = "ctx"
    /\ AllClosed
    /\ Closed("done")

\* ------------------------------------------------------------------------
\* Claims about the Tracer
\* ------------------------------------------------------------------------

\* Every hook was handed the span object i once more, as it is after the
\* step.
HooksOnceMore(i) ==
    \A h \in 1..tr.hooks :
        tr'.seen[h] = Append(tr.seen[h], SpanSeen(tr'.heap[i]))

\* The step is EndSpan(span i, error e) and `then` holds of the event kinds
\* before and after it.
EndSpanRewrites(then(_, _, _)) ==
    \A i \in 1..MaxTracerCalls, e \in {"nil", "boom"} :
        TracerEndSpan(i, <<0>>, e) =>
            /\ then(tr.heap[i].event, e, tr'.heap[i].event)
            /\ HooksOnceMore(i)

StartToErrorOrEnd(before, e, after) ==
    /\ before = "node_start" =>
          after = (IF e # "nil" THEN "node_error" ELSE "node_end")
    /\ before = "graph_start" =>
          after = (IF e # "nil" THEN "graph_error" ELSE "graph_end")

NodeToErrorOrEndGraphToEnd(before, e, after) ==
    /\ before = "node_start" =>
          after = (IF e # "nil" THEN "node_error" ELSE "node_end")
    /\ before = "graph_start" => after = "graph_end"

\* C28 as stated: EndSpan turns a node_start or graph_start span into the
\* *_error kind when the error is non-nil and into the *_end kind when it is
\* nil, then hands the rewritten span to every hook once more.
C28_Original == [][EndSpanRewrites(StartToErrorOrEnd)]_vars

\* C28, amended: EndSpan turns a node_start span into node_error when the
\* error is non-nil and into node_end when it is nil; it turns a graph_start
\* span into graph_end whether or not the error is nil, the error being kept
\* in the span; then every hook is handed the rewritten span once more.
C28_Amended ==
    [][/\ EndSpanRewrites(NodeToErrorOrEndGraphToEnd)
       /\ \A i \in 1..MaxTracerCalls, e \in {"nil", "boom"} :
             TracerEndSpan(i, <<0>>, e) =>
                 /\ tr'.heap[i].err = e
                 /\ tr'.heap[i].endTime = now]_vars

\* A graph_start span has been ended with an error and the one hook has seen
\* it twice: as graph_start, then as graph_end carrying the error.
C28_Witness ==
    /\ tr.hooks = 1
    /\ Len(tr.heap) = 1
    /\ tr.seen[1] = <<[event |-> "graph_start", node |-> "A", err |-> "nil"],
                      [event |-> "graph_end", node |-> "A", err |-> "boom"]>>

\* The nodes of the graph definition in the order its static edges chain
\* them from n, up to END or to a node with no registered function or no
\* edge; at most k nodes.
RECURSIVE GraphOrder(_, _)
GraphOrder(n, k) ==
    IF n = END \/ k = 0 \/ n \notin DOMAIN nodes THEN <<>>
    ELSE LET e == FirstEdgeFrom(edges, 1, n)
         IN  <<n>> \o (IF e.found THEN GraphOrder(e.to, k - 1) ELSE <<>>)

\* n1 -> ... -> nk -> END: every name on the way is a registered node with
\* exactly one static edge, no conditional edge, and END is reached.
RECURSIVE ReachesEnd(_, _)
ReachesEnd(n, k) ==
    \/ n = END
    \/ /\ k > 0
       /\ n \in DOMAIN nodes
       /\ n \notin DOMAIN conditionalEdges
       /\ Cardinality({i \in 1..Len(edges) : edges[i].from = n}) = 1
       /\ ReachesEnd(FirstEdgeFrom(edges, 1, n).to, k - 1)

LinearGraph == ReachesEnd(entryPoint, MaxEdges)

\* node_start, node_end, edge_traversal for each node of order, in order.
RECURSIVE PerNodeEvents(_)
PerNodeEvents(order) ==
    IF order = <<>> THEN <<>>
    ELSE <<<<"node_start", Head(order)>>, <<"node_end", Head(order)>>,
           <<"edge_traversal", "">>>> \o PerNodeEvents(Tail(order))

ExpectedEvents ==
    <<<<"graph_start", "">>>>
        \o PerNodeEvents(GraphOrder(entryPoint, MaxEdges))
        \o <<<<"graph_end", "">>>>

\* What hook h recorded: the event kind and node name of each call.
HookEvents(h) ==
    [i \in 1..Len(tr.seen[h]) |-> <<tr.seen[h][i].event, tr.seen[h][i].node>>]

NodeErrorsSeen(h) ==
    {i \in 1..Len(tr.seen[h]) : tr.seen[h][i].event = "node_error"}

TracedDone == tr.pc = "done"

\* C29: when TracedRunnable.Invoke has returned without error from a linear
\* graph, every hook has been handed exactly graph_start, then node_start,
\* node_end, edge_traversal for each node in graph order, then graph_end;
\* when it has returned a node's error, every hook has been handed exactly
\* one node_error; and at no time has a hook been handed more than one
\* node_error or a node_start after it.
C29_HookSequence ==
    \A h \in 1..tr.hooks :
        /\ (TracedDone /\ LinearGraph /\ tr.ret.err = "nil") =>
              HookEvents(h) = ExpectedEvents
        /\ (TracedDone /\ tr.ret.err = "boom") =>
              Cardinality(NodeErrorsSeen(h)) = 1
        /\ Cardinality(NodeErrorsSeen(h)) <= 1
        /\ \A i \in NodeErrorsSeen(h), j \in 1..Len(tr.seen[h]) :
              j > i => tr.seen[h][j].event # "node_start"

\* The two-node chain has run to END with two hooks registered, and the
\* second hook holds its eight events.
C29_Witness ==
    /\ TracedDone
    /\ LinearGraph
    /\ tr.hooks = 2
    /\ tr.ret.err = "nil"
    /\ tr.path = <<"A", "B">>
    /\ Len(tr.seen[2]) = 8

\* A run whose second node failed: the hook saw one node_error, then the end
\* of the graph span.
C29_FailureReached ==
    /\ TracedDone
    /\ tr.hooks >= 1
    /\ tr.ret.err = "boom"
    /\ tr.path = <<"A", "B">>

\* ------------------------------------------------------------------------
\* Claims about MemoryCheckpointStore
\* ------------------------------------------------------------------------

\* The checkpoints of a store whose metadata execution_id equals e.
StoredFor(store, e) ==
    {store[id] : id \in {i \in DOMAIN store : store[i].execution_id = e}}

\* The ids of a store holding a checkpoint of another execution id than e, or
\* of none.
IdsOfOthers(store, e) == {i \in DOMAIN store : store[i].execution_id # e}

\* C30: List(e) has returned exactly the stored checkpoints whose metadata
\* execution_id is e; after Clear(e) the store holds exactly the checkpoints
\* it held before under another execution id, each under its id and
\* unchanged, and none of e; a Load of an id returns what is stored under it.
C30_ListAndClear ==
    /\ cs.op = "List" =>
          /\ cs.ret = StoredFor(ckStore, cs.arg)
          /\ ckStore = cs.before
    /\ cs.op = "Clear" =>
          /\ DOMAIN ckStore = IdsOfOthers(cs.before, cs.arg)
          /\ \A id \in DOMAIN ckStore : ckStore[id] = cs.before[id]
          /\ StoredFor(ckStore, cs.arg) = {}
    /\ cs.op = "Load" =>
          /\ ckStore = cs.before
          /\ cs.arg \in DOMAIN ckStore =>
                cs.ret = [checkpoint |-> ckStore[cs.arg], err |-> "nil"]
          /\ cs.arg \notin DOMAIN ckStore => cs.ret.err = "CheckpointNotFound"

\* Clear(e) has removed two checkpoints of e and left the one checkpoint of
\* another execution id.
C30_Witness ==
    /\ cs.op = "Clear"
    /\ Cardinality(StoredFor(cs.before, cs.arg)) = 2
    /\ Cardinality(DOMAIN ckStore) = 1
    /\ \E id \in DOMAIN ckStore : ckStore[id].execution_id \in ExecIDs

\* List(e) has returned two checkpoints out of three stored.
C30_ListReached ==
    /\ cs.op = "List"
    /\ Cardinality(cs.ret) = 2
    /\ Cardinality(DOMAIN ckStore) = 3

\* ------------------------------------------------------------------------
\* Claims about ParallelNode
\* ------------------------------------------------------------------------

ParallelReturned == pn.pc = "done"

\* Some sub-function returns an error or panics.
ParallelAnyFails == \E i \in DOMAIN pn.kinds : pn.kinds[i] # "inc"

\* C31: no sub-function is ever invoked twice; once Execute has returned,
\* every sub-function has been invoked exactly once and had returned or
\* panicked before the return; the result is nil with an error when some
\* sub-function returned an error or panicked, and otherwise the list whose
\* position i is the output of sub-function i, with no error.
C31_ParallelJoin ==
    /\ \A i \in DOMAIN pn.calls : pn.calls[i] <= 1
    /\ ParallelReturned =>
          /\ \A i \in DOMAIN pn.calls : pn.calls[i] = 1
          /\ pn.pendingAtRet = {}
          /\ \A i \in DOMAIN pn.worker : pn.worker[i] = "done"
          /\ IF ParallelAnyFails
             THEN pn.ret.results = Nil /\ pn.ret.err # "nil"
             ELSE /\ pn.ret.err = "nil"
                  /\ pn.ret.results =
                        [i \in 1..Len(pn.kinds) |->
                            NodeFunction(pn.kinds[i], pn.in).state]

\* Execute has returned the two outputs of two sub-functions that succeeded.
C31_Witness ==
    /\ ParallelReturned
    /\ Len(pn.kinds) = 2
    /\ pn.ret.err = "nil"
    /\ Len(pn.ret.results) = 2

\* Execute has returned an error although one sub-function succeeded and its
\* output was collected; another panicked.
C31_FailureReached ==
    /\ ParallelReturned
    /\ pn.kinds = <<"inc", "panic">>
    /\ pn.ret.results = Nil
    /\ pn.outputs[1] # Nil

\* ------------------------------------------------------------------------
\* Claims about the three engines
\* ------------------------------------------------------------------------

\* The kind of an error of Runnable.Invoke, in the terms of the errors the
\* other engines return: a node's error counts as the error it wraps.
RunnableErrKind(e) ==
    IF e = NoErr THEN "nil"
    ELSE IF e.kind = "NodeNotFound" THEN "ErrNodeNotFound"
    ELSE IF e.kind = "NoOutgoingEdge" THEN "ErrNoOutgoingEdge"
    ELSE IF e.kind = "NodeExecutionError" THEN e.cause
    ELSE e.kind

\* The call `run` (of the traced or the listenable engine), once returned,
\* executed the nodes Runnable.Invoke executes on the same graph and initial
\* state, and returned the same state or the same kind of error.
SameAsRunnable(run) ==
    run.pc = "done" =>
        LET plain == RunAlone(run.arg)
        IN  /\ run.path = plain.path
            /\ run.ret.state = plain.ret.state
            /\ run.ret.err = RunnableErrKind(plain.ret.err)

\* C32: on the same graph and initial state, TracedRunnable.Invoke and
\* ListenableRunnable.Invoke execute the same nodes in the same order as
\* Runnable.Invoke and return the same state or the same kind of error,
\* conditional edges included.
C32_Claim == SameAsRunnable(tr) /\ SameAsRunnable(lgRun)

\* The same for graphs that register no conditional edge.
C32_StaticOnly ==
    conditionalEdges = <<>> => SameAsRunnable(tr) /\ SameAsRunnable(lgRun)

\* Both engines have returned from the two-node chain.
C32_StaticReached ==
    /\ tr.pc = "done"
    /\ lgRun.pc = "done"
    /\ tr.path = <<"A", "B">>
    /\ lgRun.path = <<"A", "B">>
    /\ lgRun.ret.err = "nil"

\* ------------------------------------------------------------------------
\* Claims about overlapping runs
\* ------------------------------------------------------------------------

\* Stream's channels are closed, or CheckpointableRunnable.Invoke returned.
RunOver(r) == ov.run[r].pc \in {"closed", "returned"}

\* The listener of call r is in the observer list of node i.
Observes(r, i) ==
    \E k \in 1..Len(ov.obs[i]) :
        ov.obs[i][k] = ListenerOf(ov.run[r].kind, r)

\* The observers of node i that no call of the model attached.
RECURSIVE UserObservers(_)
UserObservers(ls) ==
    IF ls = <<>> THEN <<>>
    ELSE IF Head(ls).kind = "user"
    THEN <<Head(ls)>> \o UserObservers(Tail(ls))
    ELSE UserObservers(Tail(ls))

\* C33: once a Stream's channels are closed, or CheckpointableRunnable.Invoke
\* has returned, the listener of that call is on no node's observer list;
\* the observers registered before the calls stay on every list, in order,
\* throughout; and when no call is under way every list is what it was
\* before the calls, also after calls that overlapped.
C33_ListenerDetached ==
    /\ \A r \in OverlapRuns, i \in DOMAIN ov.obs : RunOver(r) => ~Observes(r, i)
    /\ \A i \in DOMAIN ov.obs : UserObservers(ov.obs[i]) = ov.before
    /\ (\A r \in OverlapRuns : RunOver(r) \/ ov.run[r].pc = "idle") =>
          \A i \in DOMAIN ov.obs : ov.obs[i] = ov.before

\* A Stream and a CheckpointableRunnable.Invoke overlapped on a two-node
\* chain with a registered observer, and both are over.
C33_Witness ==
    /\ ov.overlapped
    /\ Len(ov.chain) = 2
    /\ ov.before = <<UserListener>>
    /\ ov.run[1].kind = "stream"
    /\ ov.run[2].kind = "ckpt"
    /\ RunOver(1)
    /\ RunOver(2)

\* A call that ended with the node's error is over.
C33_FailedRunReached ==
    \E r \in OverlapRuns : RunOver(r) /\ ov.run[r].failed /\ ov.overlapped

\* C37: no StreamingListener sends on its event channel after Stream has
\* closed that channel, whichever run made the dispatch.
C37_Claim == ov.closedSends = {}

\* The sends on a closed event channel are all made by dispatches of another
\* run: the dispatches of the Stream's own run are over before the Invoke
\* of its goroutine returns.
C37_OwnRunSafe == \A x \in ov.closedSends : x.by # x.to

\* Run 2 has sent on the closed event channel of the Stream that is call 1.
C37_ClosedSendReached == [by |-> 2, to |-> 1] \in ov.closedSends

\* ------------------------------------------------------------------------
\* Claims about spans of a run
\* ------------------------------------------------------------------------

\* Every span object has its end time set and a terminal event kind.
SpansEnded ==
    \A i \in 1..Len(tr.heap) :
        /\ tr.heap[i].endTime # -1
        /\ tr.heap[i].event \notin {"graph_start", "node_start"}

\* Hook h was handed the terminal event of every span it saw start: the
\* node's end or error right after each node_start, the graph's end last.
TerminalDelivered(h) ==
    LET seen == tr.seen[h]
    IN  /\ seen # <<>>
        /\ seen[Len(seen)].event = "graph_end"
        /\ \A k \in 1..Len(seen) :
              seen[k].event = "node_start" =>
                  /\ k < Len(seen)
                  /\ seen[k + 1].event \in {"node_end", "node_error"}
                  /\ seen[k + 1].node = seen[k].node

RunSpansEnded == SpansEnded /\ \A h \in 1..tr.hooks : TerminalDelivered(h)

\* C34: when an Invoke with a tracer has returned, with or without an error,
\* from a TracedRunnable or from a Runnable with the tracer set, every span
\* it started is ended and every hook was handed its terminal event.
C34_Claim == tr.pc = "done" => RunSpansEnded

\* The same for TracedRunnable.Invoke alone, and for the Invoke of a Runnable
\* with the tracer set that returns without error.
C34_TracedAndSuccess ==
    (/\ tr.pc = "done"
     /\ tr.engine = "TracedRunnable" \/ tr.ret.err = "nil") => RunSpansEnded

\* Whenever the Invoke of a Runnable with a tracer returns an error, the
\* graph span is left open.
C34_GraphSpanLeaked ==
    (tr.pc = "done" /\ tr.engine = "Runnable" /\ tr.ret.err # "nil") =>
        /\ tr.heap[tr.graphSpan].endTime = -1
        /\ tr.heap[tr.graphSpan].event = "graph_start"

\* The Invoke of a Runnable with a tracer returned a node's error.
C34_LeakReached ==
    /\ tr.pc = "done"
    /\ tr.engine = "Runnable"
    /\ tr.ret.err = "boom"
    /\ tr.hooks = 1

\* ------------------------------------------------------------------------
\* Claims about execution ids
\* ------------------------------------------------------------------------

\* What CheckpointableRunnable.ListCheckpoints can return for call r: the
\* checkpoints built that carry the execution id of the call's listener.
ListedFor(r) == {c \in ov.ckpts : c.execution_id = executionID}

\* C35: checkpoints auto-saved by different Invoke calls on the same
\* CheckpointableRunnable carry different execution ids, so the checkpoints
\* listed for one call hold none written by the listener of another.
C35_Claim ==
    /\ \A c, d \in ov.ckpts : c.of # d.of => c.execution_id # d.execution_id
    /\ \A r \in OverlapRuns : \A c \in ListedFor(r) : c.of = r

\* Every checkpoint auto-saved through the CheckpointableRunnable carries the
\* one execution id generated when the runnable was made.
C35_OneIdPerRunnable == \A c \in ov.ckpts : c.execution_id = executionID

\* Two Invoke calls that did not overlap have each auto-saved a checkpoint
\* of the node they executed themselves.
C35_TwoRunsSaved ==
    /\ ~ov.overlapped
    /\ \A r \in OverlapRuns : ov.run[r].kind = "ckpt" /\ RunOver(r)
    /\ \E c, d \in ov.ckpts : c.of = 1 /\ c.by = 1 /\ d.of = 2 /\ d.by = 2

\* ------------------------------------------------------------------------
\* Claims about the Open state of the breaker
\* ------------------------------------------------------------------------

\* The wrapped function is being executed less than openTimeout after the
\* last entry into Open.
ExecutesTooSoon ==
    /\ cbOpenedAt # <<>>
    /\ cbPc = "inner"
    /\ now - cbOpenedAt[1] < cbCfg.timeout

\* C36: after the breaker has entered Open, by a failure or by the half-open
\* quota being exceeded, the wrapped function is not executed before
\* openTimeout has elapsed since that entry.
C36_Claim == ~ExecutesTooSoon

\* After an entry into Open by a failure, the wrapped function is executed
\* only when more than openTimeout has elapsed since the entry.
C36_AfterFailure ==
    (/\ cbOpenedAt # <<>>
     /\ cbOpenedAt[2] = "failure"
     /\ cbPc = "inner") => now - cbOpenedAt[1] > cbCfg.timeout

\* The call right after the one rejected for the half-open quota executes the
\* wrapped function at the clock reading of that rejection.
C36_QuotaReopens ==
    /\ cbOpenedAt = <<now, "quota">>
    /\ cbPc = "inner"
    /\ cbExecIn = "HalfOpen"

\* ------------------------------------------------------------------------
\* Claims about the rejections of the rate limiter
\* ------------------------------------------------------------------------

\* A call that starts and is not admitted returns RateLimited with a wait
\* greater than zero and at most window.
RLRejectsWithWait ==
    (rlCalls' = rlCalls + 1 /\ rlPc' # "inner")
    => /\ rlRet'.kind = "RateLimited"
       /\ rlRet'.wait > 0
       /\ rlRet'.wait <= rlCfg.window

\* C38: whenever a RateLimiter does not admit a call, it returns a
\* RateLimited error whose suggested wait is greater than zero and at most
\* window, for every window > 0 and every maxCalls, zero included.
C38_Claim == [][RLRejectsWithWait]_vars

\* The same for a limiter with maxCalls >= 1.
C38_PositiveLimit == [][rlCfg.maxCalls >= 1 => RLRejectsWithWait]_vars

\* The first call of a limiter with maxCalls = 0 has panicked.
C38_PanicReached ==
    /\ rlCfg.maxCalls = 0
    /\ rlPc = "panicked"
    /\ rlRet.kind = "panic"
    /\ rlCalls = 1

\* A limiter with maxCalls >= 1 has rejected a call with a wait of the whole
\* window, the oldest recorded call having been made at this clock reading.
C38_RejectionReached ==
    /\ rlCfg.maxCalls >= 1
    /\ rlRet.kind = "RateLimited"
    /\ rlRet.wait = rlCfg.window
    /\ rlPc = "idle"

\* ------------------------------------------------------------------------
\* Claims about the backoff sleeps
\* ------------------------------------------------------------------------

RECURSIVE Power(_, _)
Power(b, k) == IF k = 0 THEN 1 ELSE b * Power(b, k - 1)

\* min(initialDelay * backoffFactor^(n-1), maxDelay), in whole time units.
ClosedFormDelay(n) ==
    LET grown == (rtCfg.initialDelay * Power(rtCfg.backoffFactor.num, n - 1))
                     \div Power(rtCfg.backoffFactor.den, n - 1)
    IN  IF grown > rtCfg.maxDelay THEN rtCfg.maxDelay ELSE grown

\* The sleeps of the call so far, the one under way included.
SleepsSoFar == IF rtPc = "sleep" THEN Append(rtSleeps, delay) ELSE rtSleeps

\* No sleep follows the final attempt: a call makes at most maxAttempts - 1
\* sleeps, each after an attempt that was not the last.
NoSleepAfterFinalAttempt ==
    /\ Len(SleepsSoFar) <= rtCalls
    /\ Len(SleepsSoFar) < rtCfg.maxAttempts \/ SleepsSoFar = <<>>

\* C39: the n-th sleep between attempts lasts min(initialDelay *
\* backoffFactor^(n-1), maxDelay); no sleep is longer than maxDelay and no
\* sleep follows the final attempt.
C39_Claim ==
    /\ \A n \in 1..Len(SleepsSoFar) :
          /\ SleepsSoFar[n] = ClosedFormDelay(n)
          /\ SleepsSoFar[n] <= rtCfg.maxDelay
    /\ NoSleepAfterFinalAttempt

\* What the loop does: the first sleep lasts initialDelay, whatever maxDelay
\* is; each later one lasts the one before it times the factor, truncated,
\* and at most maxDelay; no sleep follows the final attempt.
C39_SleepsAsComputed ==
    /\ \A n \in 1..Len(SleepsSoFar) :
          /\ n = 1 => SleepsSoFar[n] = rtCfg.initialDelay
          /\ n > 1 => /\ SleepsSoFar[n] = RetryNextDelay(SleepsSoFar[n - 1])
                      /\ SleepsSoFar[n] <= rtCfg.maxDelay
    /\ NoSleepAfterFinalAttempt

\* With initialDelay at most maxDelay, no sleep is longer than maxDelay.
C39_CappedFromSecond ==
    rtCfg.initialDelay <= rtCfg.maxDelay =>
        \A n \in 1..Len(SleepsSoFar) : SleepsSoFar[n] <= rtCfg.maxDelay

\* The first sleep of a call was longer than maxDelay; the second was not.
C39_LongFirstSleep ==
    /\ Len(rtSleeps) = 2
    /\ rtSleeps[1] > rtCfg.maxDelay
    /\ rtSleeps[2] = rtCfg.maxDelay
    /\ rtCfg.maxDelay > 0

\* ------------------------------------------------------------------------
\* Claims about the counters of the breaker
\* ------------------------------------------------------------------------

\* C40: with failureThreshold >= 1 and calls made one at a time, between
\* calls the count of consecutive failures (cb.failures, which is the number
\* of failures returned since the last success) is below failureThreshold
\* whenever the breaker is Closed, and cb.halfOpenCalls is at most
\* halfOpenMaxCalls.
C40_CounterBounds ==
    (cbCfg.failureThreshold >= 1 /\ cbPc = "idle") =>
        /\ cbState = "Closed" =>
              /\ failures < cbCfg.failureThreshold
              /\ failures = cbConsecFail
        /\ halfOpenCalls <= cbCfg.halfOpenMaxCalls

\* The breaker has opened, used its whole half-open quota, closed again and
\* counted failures up to one below the threshold.
C40_Witness ==
    /\ cbPc = "idle"
    /\ cbState = "Closed"
    /\ cbOpenedAt # <<>>
    /\ failures >= 1
    /\ failures = cbCfg.failureThreshold - 1
    /\ halfOpenCalls = cbCfg.halfOpenMaxCalls

====
